---- MODULE Spec2Model ----
(***************************************************************************)
(* Verification model of the dimos web front ends.                         *)
(*                                                                         *)
(*  Part I  - the stream viewer (StreamViewer.svelte + stores/stream.ts):  *)
(*            the per-key retry automaton of the camera feeds.             *)
(*  Part II - the websocket visualiser client (clientside/init.ts,         *)
(*            decoder.ts, types.ts): decode + deepMerge of state updates.  *)
(*                                                                         *)
(* Both programs are single-threaded JavaScript: every handler runs to     *)
(* completion, so every handler is one action.                             *)
(***************************************************************************)
EXTENDS Integers, Sequences, FiniteSets, TLC

VARIABLES
    streamStore,    \* stores/stream.ts: the writable streamStore
    pendingShow,    \* showStream calls awaiting fetchAvailableStreams
    errorMessages,  \* StreamViewer: Record<string, string | null>
    retryCount,     \* StreamViewer: Record<string, number>
    retryTimers,    \* StreamViewer: Record<string, number | null>
    timestamps,     \* StreamViewer: Record<string, number>
    now,            \* the clock Date.now() reads, in milliseconds
    orphanTimers,   \* browser timer table: pending retry timers no handle refers to
    serverState,    \* init.ts: let serverState
    reactVisualizer,\* init.ts: let reactVisualizer (null, or the Visualizer's fields)
    inbox,          \* events delivered to the page and not handled yet
    delivered,      \* every event delivered so far, in delivery order
    handled,        \* how many of them the handler has run for
    decodeArg,      \* decoder.ts: the argument of a call of decode
    decodeResult,   \* what that call returned or threw
    dimensions,     \* vis2.tsx: the dimensions state of VisualizerComponent
    transformer,    \* the scales of worldToPx / pxToWorld useMemo holds (Null: no render yet)
    drawn,          \* what the draw effect has put into the svg
    emitted,        \* the messages handed to socket.emit("message", ...)
    textEventSources, \* stores/stream.ts: Record<string, EventSource>, the registry
    eventSources    \* the EventSource objects created so far, each with its key and readyState

streamVars == <<streamStore, pendingShow, errorMessages, retryCount,
                retryTimers, timestamps, orphanTimers, now,
                textEventSources, eventSources>>

visVars == <<serverState, reactVisualizer, inbox, delivered, handled>>

codecVars == <<decodeArg, decodeResult>>

viewVars == <<dimensions, transformer, drawn, emitted>>

vars == <<streamVars, visVars, codecVars, viewVars>>

----------------------------------------------------------------------------
(* Bounds of the model *)

\* showStream calls that may be awaiting their fetch at the same time
MaxPendingShow == 1

\* events delivered to the page in one run of the event queue
MaxDelivered == 3

\* click messages handed to the socket in one run
MaxEmitted == 1

\* retry intervals the clock runs for
MaxIntervals == 61

\* EventSource objects created in one run
MaxSources == 5

\* the stream keys; the server offers all of them (GET /streams)
Keys == {"cam0", "cam1"}

\* the arguments of showStream: one key, or none (all the streams)
ShowArgs == {"cam0", "all"}

----------------------------------------------------------------------------
(* Part I: StreamViewer.svelte                                             *)

TOTAL_TIMEOUT == 120000
RETRY_INTERVAL == 2000
\* the retry budget taken one attempt too large
MAX_RETRIES_Inclusive == (TOTAL_TIMEOUT \div RETRY_INTERVAL) + 1
MAX_RETRIES == TOTAL_TIMEOUT \div RETRY_INTERVAL

\* Math.ceil(x / d) for x >= 0
Ceil(x, d) == (x + d - 1) \div d

\* A JavaScript Record<string, T> is a function on the keys it holds;
\* reading a key it does not hold yields undefined.
Has(rec, k) == k \in DOMAIN rec
Put(rec, k, v) == (k :> v) @@ rec

\* The values an entry of errorMessages takes.
NoMessage == [kind |-> "null", n |-> 0, secs |-> 0]
AttemptMessage(n, secs) == [kind |-> "attempt", n |-> n, secs |-> secs]
FailedMessage == [kind |-> "failed", n |-> 0, secs |-> 0]

\* A timer handle as retryTimers holds it: "null", or the handle of a timer
\* that is still pending, or the handle of a timer that has fired already.
NullHandle == "null"
PendingHandle == "pending"
FiredHandle == "fired"

\* !retryCount[streamKey]: undefined or 0
CountIsFalsy(rc, k) == ~Has(rc, k) \/ rc[k] = 0

\* The component's local state as one record, so that the functions below
\* can be composed as the code calls them.
Local == [errorMessages |-> errorMessages, retryCount |-> retryCount,
          retryTimers |-> retryTimers, timestamps |-> timestamps,
          orphanTimers |-> orphanTimers]

\* timestamps[streamKey] = Date.now(); the value of the clock is the
\* environment's, the model keeps that the key holds a timestamp
DateNow == now

\* the timestamp of the key is left as it is
Stamp_Keep(L, k) == L

Stamp(L, k) == [L EXCEPT !.timestamps = Put(@, k, DateNow)]

\* clearRetryTimer clearing the timer of every key
clearRetryTimer_AllKeys(L, k) ==
    [L EXCEPT !.retryTimers =
        [x \in (DOMAIN L.retryTimers) \cup {k} |-> NullHandle]]

\* clearRetryTimer without clearTimeout and without the assignment of null
clearRetryTimer_KeepTimer(L, k) == L

\* clearRetryTimer: undefined !== null holds, so a key without an entry
\* gets clearTimeout(undefined) and then the entry null.
clearRetryTimer(L, k) ==
    [L EXCEPT !.retryTimers =
        IF Has(@, k) /\ @[k] = NullHandle THEN @ ELSE Put(@, k, NullHandle)]

\* no timer is started
SetRetryTimer_Never(L, k) == L

\* setTimeout(() => retryConnection(streamKey), RETRY_INTERVAL) stored in
\* retryTimers[streamKey]; a pending timer whose handle is overwritten
\* stays in the browser's table.
SetRetryTimer(L, k) ==
    [L EXCEPT !.retryTimers = Put(@, k, PendingHandle),
              !.orphanTimers =
                  [@ EXCEPT ![k] =
                      IF Has(L.retryTimers, k) /\ L.retryTimers[k] = PendingHandle
                      THEN @ + 1 ELSE @]]

\* retryConnection with the budget test off by one (<= for <)
retryConnection_OffByOne(L, k) ==
    LET L0 == [L EXCEPT !.retryCount =
                     IF CountIsFalsy(@, k) THEN Put(@, k, 0) ELSE @]
    IN  IF L0.retryCount[k] <= MAX_RETRIES
        THEN LET n == L0.retryCount[k] + 1
                 timeLeft == TOTAL_TIMEOUT - (n * RETRY_INTERVAL)
                 L1 == [L0 EXCEPT
                          !.retryCount = Put(@, k, n),
                          !.errorMessages =
                              Put(@, k, AttemptMessage(n, Ceil(timeLeft, 1000)))]
             IN  SetRetryTimer(clearRetryTimer(Stamp(L1, k), k), k)
        ELSE [L0 EXCEPT !.errorMessages = Put(@, k, FailedMessage)]

retryConnection(L, k) ==
    LET L0 == [L EXCEPT !.retryCount =
                     IF CountIsFalsy(@, k) THEN Put(@, k, 0) ELSE @]
    IN  IF L0.retryCount[k] < MAX_RETRIES
        THEN LET n == L0.retryCount[k] + 1
                 timeLeft == TOTAL_TIMEOUT - (n * RETRY_INTERVAL)
                 L1 == [L0 EXCEPT
                          !.retryCount = Put(@, k, n),
                          !.errorMessages =
                              Put(@, k, AttemptMessage(n, Ceil(timeLeft, 1000)))]
             IN  SetRetryTimer(clearRetryTimer(Stamp(L1, k), k), k)
        ELSE [L0 EXCEPT !.errorMessages = Put(@, k, FailedMessage)]

\* handleError without its test of the retry count
handleError_Always(L, k) == retryConnection(L, k)

handleError(L, k) ==
    IF CountIsFalsy(L.retryCount, k) THEN retryConnection(L, k) ELSE L

\* handleLoad without clearRetryTimer
handleLoad_KeepTimer(L, k) ==
    [L EXCEPT !.errorMessages = Put(L.errorMessages, k, NoMessage),
              !.retryCount = Put(L.retryCount, k, 0)]

handleLoad(L, k) ==
    LET L1 == [L EXCEPT !.errorMessages = Put(L.errorMessages, k, NoMessage),
                        !.retryCount = Put(L.retryCount, k, 0)]
    IN  clearRetryTimer(L1, k)

\* clearRetryTimer for each key of ks, in any order (the steps commute)
RECURSIVE ClearTimersOf(_, _)
ClearTimersOf(L, ks) ==
    IF ks = {} THEN L
    ELSE LET k == CHOOSE x \in ks : TRUE
         IN  ClearTimersOf(clearRetryTimer(L, k), ks \ {k})

\* the handles are forgotten without clearTimeout: the timers stay in the
\* browser's table
ClearAllTimers_ForgetHandles(L) ==
    [L EXCEPT !.retryTimers = [k \in DOMAIN L.retryTimers |-> NullHandle],
              !.orphanTimers =
                  [k \in DOMAIN L.orphanTimers |->
                      IF Has(L.retryTimers, k) /\ L.retryTimers[k] = PendingHandle
                      THEN L.orphanTimers[k] + 1 ELSE L.orphanTimers[k]]]

\* Object.keys(retryTimers).forEach(key => clearRetryTimer(key))
ClearAllTimers(L) == ClearTimersOf(L, DOMAIN L.retryTimers)

\* the body of the reactive block for one key
ResetKey(L, k) ==
    LET L1 == [L EXCEPT !.errorMessages = Put(L.errorMessages, k, NoMessage),
                        !.retryCount = Put(L.retryCount, k, 0)]
    IN  Stamp(clearRetryTimer(L1, k), k)

\* $streamStore.streamKeys.forEach(key => { ... })
RECURSIVE ResetKeys(_, _)
ResetKeys(L, ks) ==
    IF ks = {} THEN L
    ELSE LET k == CHOOSE x \in ks : TRUE
         IN  ResetKeys(ResetKey(L, k), ks \ {k})

\* $: if ($streamStore.url && $streamStore.streamKeys) { ... }, which Svelte
\* runs after every change of the store
Reactive(L, store) ==
    IF store.url # "null"
    THEN ResetKeys(L, store.streamKeys)
    ELSE L

\* the component's own initialState (no isLoading, no error)
viewerInitialState ==
    [isVisible |-> FALSE, url |-> "null", streamKeys |-> {},
     availableStreams |-> {}]

\* stores/stream.ts: initialState
initialState ==
    [isVisible |-> FALSE, url |-> "null", isLoading |-> FALSE,
     error |-> "null", streamKeys |-> {}, availableStreams |-> {}]

\* { ...state, f: v } on a store value that may lack the field
With(store, f, v) ==
    [x \in (DOMAIN store) \cup {f} |-> IF x = f THEN v ELSE store[x]]

Install(L) ==
    \E M \in {L} :
        /\ errorMessages' = M.errorMessages
        /\ retryCount' = M.retryCount
        /\ retryTimers' = M.retryTimers
        /\ timestamps' = M.timestamps
        /\ orphanTimers' = M.orphanTimers

\* a key whose <img> is in the document
Displayed(k) ==
    /\ streamStore.isVisible
    /\ streamStore.url # "null"
    /\ k \in streamStore.streamKeys

\* a retry timer of key k is in the browser's timer table
TimerPending(k) ==
    \/ (Has(retryTimers, k) /\ retryTimers[k] = PendingHandle)
    \/ orphanTimers[k] > 0

(* showStream, up to its await of fetchAvailableStreams *)
ShowStreamCall(arg) ==
    /\ Len(pendingShow) < MaxPendingShow
    /\ LET s == With(With(streamStore, "isLoading", TRUE), "error", "null")
       IN  /\ streamStore' = s
           /\ Install(Reactive(Local, s))
    /\ pendingShow' = Append(pendingShow, arg)
    /\ UNCHANGED <<visVars, codecVars, viewVars, now, textEventSources, eventSources>>

RemoveAt(seq, i) == SubSeq(seq, 1, i - 1) \o SubSeq(seq, i + 1, Len(seq))

(* showStream, from the resolution of its fetch; streams is what          *)
(* fetchAvailableStreams returned: the server's keys, or [] when the       *)
(* fetch failed                                                            *)
ShowStreamResolve(i, streams) ==
    /\ i \in 1..Len(pendingShow)
    /\ LET arg == pendingShow[i]
           s == IF streams = {}
                THEN With(With(streamStore, "isLoading", FALSE),
                          "error", "No video streams available")
                ELSE [isVisible |-> TRUE, url |-> "http://0.0.0.0:5555",
                      streamKeys |-> IF arg # "all" THEN {arg} ELSE streams,
                      isLoading |-> FALSE, error |-> "null",
                      availableStreams |-> streams]
       IN  /\ streamStore' = s
           /\ Install(Reactive(Local, s))
    /\ pendingShow' = RemoveAt(pendingShow, i)
    /\ UNCHANGED <<visVars, codecVars, viewVars, now, textEventSources, eventSources>>

(* hideStream: simulationManager.stopSimulation() finds no connection     *)
(* (requestSimulation has no caller) and settles without a fetch, so the   *)
(* store is set before any other event is handled                          *)
HideStream ==
    /\ streamStore' = initialState
    /\ Install(Reactive(Local, initialState))
    /\ UNCHANGED <<pendingShow, visVars, codecVars, viewVars, now, textEventSources, eventSources>>

(* the Stop Streams button; it is shown only while the viewer is visible *)
StopStream ==
    /\ streamStore.isVisible
    /\ streamStore' = viewerInitialState
    /\ Install(Reactive(ClearAllTimers(Local), viewerInitialState))
    /\ UNCHANGED <<pendingShow, visVars, codecVars, viewVars, now, textEventSources, eventSources>>

(* on:error of the <img> of key k *)
ImgError(k) ==
    /\ Displayed(k)
    /\ Install(handleError(Local, k))
    /\ UNCHANGED <<streamStore, pendingShow, visVars, codecVars, viewVars, now, textEventSources, eventSources>>

(* on:load of the <img> of key k *)
ImgLoad(k) ==
    /\ Displayed(k)
    /\ Install(handleLoad(Local, k))
    /\ UNCHANGED <<streamStore, pendingShow, visVars, codecVars, viewVars, now, textEventSources, eventSources>>

(* a pending retry timer of key k fires and runs retryConnection(k): the  *)
(* timer retryTimers[k] refers to, or one whose handle was overwritten     *)
TimerFire(k) ==
    /\ TimerPending(k)
    /\ \E tracked \in BOOLEAN :
          /\ tracked => (Has(retryTimers, k) /\ retryTimers[k] = PendingHandle)
          /\ ~tracked => orphanTimers[k] > 0
          /\ Install(retryConnection(
                 IF tracked
                 THEN [Local EXCEPT !.retryTimers = Put(retryTimers, k, FiredHandle)]
                 ELSE [Local EXCEPT !.orphanTimers = [orphanTimers EXCEPT ![k] = @ - 1]],
                 k))
    /\ UNCHANGED <<streamStore, pendingShow, visVars, codecVars, viewVars, now, textEventSources, eventSources>>

(* time passes: the clock Date.now() reads advances by a retry interval *)
TimePasses ==
    /\ now < MaxIntervals * RETRY_INTERVAL
    /\ now' = now + RETRY_INTERVAL
    /\ UNCHANGED <<streamStore, pendingShow, errorMessages, retryCount,
                   retryTimers, timestamps, orphanTimers, visVars, codecVars,
                   viewVars, textEventSources, eventSources>>

(* the retry timer of key k fires when its delay has passed: it was set   *)
(* by the call of retryConnection that wrote timestamps[k], to fire        *)
(* RETRY_INTERVAL later                                                    *)
TimerDue(k) ==
    /\ Has(timestamps, k)
    /\ now >= timestamps[k] + RETRY_INTERVAL
    /\ TimerFire(k)

----------------------------------------------------------------------------
(* stores/stream.ts: the text streams                                      *)

\* connectTextStream leaving the source it replaces open
connectTextStream_KeepOpen(key) ==
    /\ Len(eventSources) < MaxSources
    /\ eventSources' = Append(eventSources, [key |-> key, readyState |-> "open"])
    /\ textEventSources' = Put(textEventSources, key, Len(eventSources) + 1)
    /\ UNCHANGED <<streamStore, pendingShow, errorMessages, retryCount,
                   retryTimers, timestamps, orphanTimers, now, visVars,
                   codecVars, viewVars>>

(* connectTextStream(key): the source the registry holds for the key is    *)
(* closed and its entry deleted, then a new EventSource is created and     *)
(* stored; a source is a number, its place in eventSources                 *)
connectTextStream(key) ==
    /\ Len(eventSources) < MaxSources
    /\ eventSources' =
          Append(IF Has(textEventSources, key)
                 THEN [eventSources EXCEPT ![textEventSources[key]].readyState = "closed"]
                 ELSE eventSources,
                 [key |-> key, readyState |-> "open"])
    /\ textEventSources' = Put(textEventSources, key, Len(eventSources) + 1)
    /\ UNCHANGED <<streamStore, pendingShow, errorMessages, retryCount,
                   retryTimers, timestamps, orphanTimers, now, visVars,
                   codecVars, viewVars>>

(* disconnectTextStream(key) *)
disconnectTextStream(key) ==
    /\ IF Has(textEventSources, key)
       THEN /\ eventSources' =
                  [eventSources EXCEPT ![textEventSources[key]].readyState = "closed"]
            /\ textEventSources' =
                  [k \in DOMAIN textEventSources \ {key} |-> textEventSources[k]]
       ELSE UNCHANGED <<eventSources, textEventSources>>
    /\ UNCHANGED <<streamStore, pendingShow, errorMessages, retryCount,
                   retryTimers, timestamps, orphanTimers, now, visVars,
                   codecVars, viewVars>>

(* eventSource.onerror of the source number i: the browser fires error on  *)
(* a source that is not closed (close() discards what was queued for it);  *)
(* the handler closes the source it was set on and deletes the entry of    *)
(* that source's key                                                       *)
onerror(i) ==
    /\ i \in 1..Len(eventSources)
    /\ eventSources[i].readyState # "closed"
    /\ eventSources' = [eventSources EXCEPT ![i].readyState = "closed"]
    /\ textEventSources' =
          [k \in DOMAIN textEventSources \ {eventSources[i].key} |-> textEventSources[k]]
    /\ UNCHANGED <<streamStore, pendingShow, errorMessages, retryCount,
                   retryTimers, timestamps, orphanTimers, now, visVars,
                   codecVars, viewVars>>

----------------------------------------------------------------------------
(* Part I: properties of the retry automaton                               *)

\* the entries of key k, with undefined read as the code reads it
Count(k) == IF Has(retryCount, k) THEN retryCount[k] ELSE 0
MessageOf(k) == IF Has(errorMessages, k) THEN errorMessages[k] ELSE NoMessage
Exhausted(k) == MessageOf(k) = FailedMessage
Retrying(k) == MessageOf(k).kind = "attempt"
Hidden == ~streamStore.isVisible

\* C1: stopping the streams or hiding the view cancels every retry timer of
\* every key: while the view is hidden (which only stopStream and hideStream
\* bring about) no retry timer is pending, so no retry tick can run.
C1_NoTimerWhileHidden == Hidden => \A k \in Keys : ~TimerPending(k)

\* C2 (as stated): a key whose retry count is 60 is Exhausted: the terminal
\* message is published and no timer is pending; a key whose retry count is
\* 59 and whose timer is pending shows a nonzero remaining time.
C2_ExhaustedAtSixty ==
    \A k \in Keys :
        /\ Count(k) = 60 => (Exhausted(k) /\ ~TimerPending(k))
        /\ (Count(k) = 59 /\ TimerPending(k)) =>
               (Retrying(k) /\ MessageOf(k).secs > 0)

\* C2 (amended): the 60th attempt is still a retry: at retry count 60 with
\* its timer pending the key shows "attempt 60/60 (0s remaining)"; the key
\* is Exhausted only once the tick after that has run, and then its count
\* is 60 and no timer is pending; at retry count 59 with its timer pending
\* it shows "attempt 59/60 (2s remaining)".
C2_ExhaustedAfterSixtyFirstTick ==
    \A k \in Keys :
        /\ Exhausted(k) => (Count(k) = 60 /\ ~TimerPending(k))
        /\ (Count(k) = 60 /\ TimerPending(k)) => MessageOf(k) = AttemptMessage(60, 0)
        /\ (Count(k) = 59 /\ TimerPending(k)) => MessageOf(k) = AttemptMessage(59, 2)
        /\ (Count(k) = 60 /\ ~Exhausted(k) /\ Displayed(k)) => TimerPending(k)

C2_Witness == \E k \in Keys : Exhausted(k) /\ Count(k) = 60 /\ Displayed(k)

C11_FailureWhileRetryingIgnored ==
    \A k \in Keys :
        /\ Count(k) # 0 => handleError(Local, k) = Local
        /\ Count(k) = 0 =>
              LET L == handleError(Local, k)
              IN  /\ L.retryCount[k] = 1
                  /\ L.errorMessages[k] =
                        AttemptMessage(1, (TOTAL_TIMEOUT - RETRY_INTERVAL) \div 1000)
                  /\ L.retryTimers[k] = PendingHandle
                  /\ Has(L.timestamps, k)

\* a displayed key in the middle of its retries, whose <img> may fail again
C11_Witness ==
    \E k \in Keys :
        /\ Displayed(k) /\ Retrying(k) /\ TimerPending(k)
        /\ Count(k) \in 2..(MAX_RETRIES - 1)
        /\ handleError(Local, k) = Local

\* C12: a successful load for a key, from any state, leaves the key with
\* retry count 0, no error message and no pending timer; and a key without
\* a pending timer gets one only by a load failure.
C12_LoadSuccessResets ==
    [][\A k \in Keys :
          /\ LET L == handleLoad(Local, k)
             IN  /\ L.retryCount[k] = 0
                 /\ L.errorMessages[k] = NoMessage
                 /\ ~(Has(L.retryTimers, k) /\ L.retryTimers[k] = PendingHandle)
                 /\ L.orphanTimers[k] = 0
          /\ ImgLoad(k) =>
                (Count(k)' = 0 /\ MessageOf(k)' = NoMessage /\ ~TimerPending(k)')
          /\ (~TimerPending(k) /\ TimerPending(k)') => ImgError(k)]_vars

\* a displayed key whose retries are under way and whose load may succeed
C12_Witness ==
    \E k \in Keys :
        /\ Displayed(k) /\ Retrying(k) /\ TimerPending(k) /\ Count(k) = 3
        /\ handleLoad(Local, k).retryTimers[k] = NullHandle
        /\ handleLoad(Local, k).retryCount[k] = 0

\* C13: an Exhausted key stays Exhausted with no pending timer until the
\* stream store is set again with a URL and that key, which resets the key
\* (count 0, no message, no timer).
C13_ExhaustedUntilRestart ==
    [][\A k \in Keys :
          Exhausted(k) =>
              \/ Exhausted(k)' /\ ~TimerPending(k)'
              \/ /\ <<streamStore, pendingShow>>' # <<streamStore, pendingShow>>
                 /\ streamStore'.url # "null"
                 /\ k \in streamStore'.streamKeys
                 /\ Count(k)' = 0
                 /\ MessageOf(k)' = NoMessage
                 /\ ~TimerPending(k)']_vars

\* the entries of key k in the component's local state
KeyState(L, k) ==
    [f \in {"errorMessages", "retryCount", "retryTimers", "timestamps"} |->
        IF Has(L[f], k) THEN <<L[f][k]>> ELSE <<>>]
      @@ [orphanTimers |-> L.orphanTimers[k]]

\* C14: a load failure, a load success or a retry tick for key a leaves
\* the retry count, error message, timestamp and timers of every other key
\* b as they were.
C14_KeysIndependent ==
    \A a \in Keys : \A b \in Keys \ {a} :
        /\ KeyState(handleError(Local, a), b) = KeyState(Local, b)
        /\ KeyState(handleLoad(Local, a), b) = KeyState(Local, b)
        /\ KeyState(retryConnection(Local, a), b) = KeyState(Local, b)

\* key a is retrying while key b has retry state of its own, timer included
C14_Witness ==
    \E a \in Keys : \E b \in Keys \ {a} :
        /\ Displayed(a) /\ Displayed(b)
        /\ Retrying(a) /\ TimerPending(a)
        /\ Retrying(b) /\ TimerPending(b) /\ Count(b) # Count(a)
        /\ retryConnection(Local, a) # Local
        /\ handleLoad(Local, a) # Local

\* C15: when the loads of a key keep failing and the view is neither
\* stopped nor reset, a key that is retrying becomes Exhausted (terminal
\* message, retry count MAX_RETRIES, no timer), its retry count having
\* gone up one attempt at a time, each attempt with a timestamp; and a key
\* being Exhausted does not keep another key from starting its retries and
\* from reaching Exhausted in its turn.
C15_EventuallyExhausted ==
    /\ \A k \in Keys : Retrying(k) ~> Exhausted(k)
    /\ [](\A k \in Keys :
            /\ Exhausted(k) => (Count(k) = MAX_RETRIES /\ ~TimerPending(k))
            /\ \A b \in Keys \ {k} :
                  (Exhausted(k) /\ Count(b) = 0) =>
                      handleError(Local, b).retryCount[b] = 1)
    /\ [][\A k \in Keys :
            Count(k)' # Count(k) =>
                /\ Count(k)' = Count(k) + 1
                /\ Has(timestamps', k)
                /\ MessageOf(k)' =
                      AttemptMessage(Count(k)',
                                     Ceil(TOTAL_TIMEOUT - Count(k)' * RETRY_INTERVAL, 1000))]_vars

\* one key is Exhausted while another one is shown and still retrying
C15_Witness ==
    \E a \in Keys : \E b \in Keys \ {a} :
        /\ Exhausted(a) /\ Count(a) = MAX_RETRIES
        /\ Displayed(b) /\ Retrying(b) /\ TimerPending(b)

\* C16: MAX_RETRIES is floor(120000 / 2000) = 60; the retry count of every
\* key is within 0..MAX_RETRIES, the remaining budget it gives is not
\* negative, and an attempt message shows the count and that budget in
\* seconds.
C16_RetryCountWithinBudget ==
    /\ MAX_RETRIES = 60
    /\ \A k \in Keys :
          /\ Count(k) \in 0..MAX_RETRIES
          /\ TOTAL_TIMEOUT - Count(k) * RETRY_INTERVAL >= 0
          /\ Retrying(k) =>
                /\ MessageOf(k).n = Count(k)
                /\ MessageOf(k).secs * 1000 = TOTAL_TIMEOUT - Count(k) * RETRY_INTERVAL
                /\ MessageOf(k).secs >= 0

\* the last attempt: retry count MAX_RETRIES and nothing left of the budget
C16_Witness ==
    \E k \in Keys :
        /\ Count(k) = MAX_RETRIES /\ Retrying(k)
        /\ MessageOf(k).secs = 0 /\ TimerPending(k)

----------------------------------------------------------------------------
(* Part II: websocket_vis/clientside - JavaScript values                   *)

\* A JavaScript value is a record tagged by t.  An object keeps its class,
\* its own keys in insertion order (ord) and their values (f); a typed
\* array keeps its element type and its elements.  fresh is the identity
\* of an object as far as one handler is concerned: the objects a handler
\* finds have fresh FALSE, the objects it creates have fresh TRUE; in what
\* a handler returns, an object with fresh FALSE is the very object that
\* was at the same place before.  The variables hold the values with fresh
\* FALSE throughout (Age).
Null == [t |-> "null"]
Num(n) == [t |-> "num", num |-> n]
Str(s) == [t |-> "str", str |-> s]
Bool(b) == [t |-> "bool", bool |-> b]
Chars(cs) == [t |-> "chars", chars |-> cs]
NumArr(ns) == [t |-> "arr", nums |-> ns]
PtArr(ps) == [t |-> "arr", pts |-> ps]
Typed(dtype, elems) == [t |-> "typed", dtype |-> dtype, elems |-> elems, fresh |-> TRUE]

\* a new object of class cls: its keys in order, and their values
Obj(cls, ord, f) == [t |-> "obj", cls |-> cls, ord |-> ord, f |-> f, fresh |-> TRUE]

\* a plain object, { ... }
Rec(ord, f) == Obj("Object", ord, f)

\* what a throwing call yields
Throw(err) == [t |-> "throw", err |-> err]
IsThrow(v) == v.t = "throw"

\* a case the inputs of this model never produce
Unmodelled == [t |-> "unmodelled"]

\* decodeResult before the call of decode
NotDecoded == [t |-> "none"]

HasField(v, key) == v.t = "obj" /\ key \in DOMAIN v.f

\* v.key, undefined read as null
Field(v, key) == IF HasField(v, key) THEN v.f[key] ELSE Null

\* JavaScript truthiness
Truthy(v) ==
    CASE v.t = "null" -> FALSE
      [] v.t = "num" -> v.num # 0
      [] v.t = "str" -> v.str # ""
      [] v.t = "chars" -> v.chars # <<>>
      [] v.t = "bool" -> v.bool
      [] OTHER -> TRUE

----------------------------------------------------------------------------
(* types.ts and decoder.ts                                                 *)

B64Alphabet ==
    <<"A","B","C","D","E","F","G","H","I","J","K","L","M","N","O","P",
      "Q","R","S","T","U","V","W","X","Y","Z","a","b","c","d","e","f",
      "g","h","i","j","k","l","m","n","o","p","q","r","s","t","u","v",
      "w","x","y","z","0","1","2","3","4","5","6","7","8","9","+","/">>

IsB64Char(c) == \E i \in 1..64 : B64Alphabet[i] = c
B64Value(c) == (CHOOSE i \in 1..64 : B64Alphabet[i] = c) - 1

\* atob's padding step: when the length is a multiple of 4, one or two
\* trailing "=" are removed
StripPadding(cs) ==
    LET n == Len(cs)
    IN  IF n > 0 /\ n % 4 = 0 /\ cs[n] = "="
        THEN IF cs[n - 1] = "=" THEN SubSeq(cs, 1, n - 2) ELSE SubSeq(cs, 1, n - 1)
        ELSE cs

\* atob's step before that: ASCII whitespace is removed
RemoveWhitespace(cs) ==
    LET IsData(c) == c \notin {" ", "\t", "\n", "\f", "\r"}
    IN  SelectSeq(cs, IsData)

\* the bytes of the base64 characters cs, from position i: 4 characters
\* (sextets) give 3 bytes, a rest of 3 gives 2 bytes and a rest of 2 gives
\* 1 byte (spare bits dropped)
RECURSIVE SextetsToBytes(_, _)
SextetsToBytes(cs, i) ==
    LET rest == Len(cs) - i + 1
        w2 == B64Value(cs[i]) * 64 + B64Value(cs[i + 1])
        w3 == w2 * 64 + B64Value(cs[i + 2])
        w4 == w3 * 64 + B64Value(cs[i + 3])
    IN  IF rest <= 0 THEN <<>>
        ELSE IF rest >= 4
        THEN <<w4 \div 65536, (w4 \div 256) % 256, w4 % 256>>
                 \o SextetsToBytes(cs, i + 4)
        ELSE IF rest = 3
        THEN <<w3 \div 1024, (w3 \div 4) % 256>>
        ELSE <<w2 \div 16>>

\* the one element of a set of one element
The(S) == CHOOSE x \in S : TRUE

\* atob: the bytes, or the InvalidCharacterError it throws
atob(cs) ==
    The({IF Len(body) % 4 = 1 \/ \E i \in 1..Len(body) : ~IsB64Char(body[i])
         THEN Throw("InvalidCharacterError")
         ELSE [t |-> "bytes", bytes |-> SextetsToBytes(body, 1)] :
           body \in {StripPadding(RemoveWhitespace(cs))}})

\* every dtype read as bytes
ArrayTypeOf_AlwaysBytes(dtype) == "u8"

\* a dtype outside DTYPE read as signed bytes
ArrayTypeOf_SignedFallback(dtype) ==
    IF dtype \in {"f32", "f64", "i32", "i8"} THEN dtype ELSE "i8"

\* const DTYPE = { f32, f64, i32, i8 }, with || Uint8Array: the array type
\* a dtype selects
ArrayTypeOf(dtype) ==
    IF dtype \in {"f32", "f64", "i32", "i8"} THEN dtype ELSE "u8"

BytesPerElement(arrayType) ==
    CASE arrayType = "f32" -> 4
      [] arrayType = "f64" -> 8
      [] arrayType = "i32" -> 4
      [] OTHER -> 1

\* one element, from its little-endian bytes; the float types are read for
\* the bit patterns of the non-negative integers below 2^24 only
ElementOf(arrayType, b) ==
    CASE arrayType = "i8" -> IF b[1] >= 128 THEN b[1] - 256 ELSE b[1]
      [] arrayType = "u8" -> b[1]
      [] arrayType = "i32" ->
            b[1] + 256 * b[2] + 65536 * b[3]
              + 16777216 * (IF b[4] >= 128 THEN b[4] - 256 ELSE b[4])
      [] arrayType = "f32" ->
            LET e == (b[4] % 128) * 2 + (b[3] \div 128)
                m == 8388608 + (b[3] % 128) * 65536 + b[2] * 256 + b[1]
            IN  IF e < 127 \/ e > 150 THEN 0 ELSE m \div (2 ^ (150 - e))
      [] OTHER -> 0

\* new Arr(raw.buffer): the elements, or the RangeError of a byte length
\* that is no multiple of the element size
NewTypedArray(arrayType, bytes) ==
    LET size == BytesPerElement(arrayType)
    IN  IF Len(bytes) % size # 0
        THEN Throw("RangeError")
        ELSE Typed(arrayType,
                   [i \in 1..(Len(bytes) \div size) |->
                       ElementOf(arrayType, SubSeq(bytes, (i - 1) * size + 1, i * size))])

\* Grid.decode: the shape is taken from the message as it is
GridDecode(msg) ==
    LET Grid(arr) ==
            IF IsThrow(arr) THEN arr
            ELSE Obj("Grid", <<"data", "shape">>,
                     [data |-> arr, shape |-> Field(msg, "shape")])
        FromBytes(raw) ==
            IF IsThrow(raw) THEN raw
            ELSE Grid(NewTypedArray(ArrayTypeOf(Field(msg, "dtype").str), raw.bytes))
    IN  FromBytes(IF HasField(msg, "data") /\ msg.f["data"].t = "chars"
                  THEN atob(msg.f["data"].chars)
                  ELSE Throw("TypeError"))

\* Vector.decode: new Vector(...data.c)
VectorDecode(data) ==
    IF HasField(data, "c") /\ data.f["c"].t = "arr"
    THEN Obj("Vector", <<"coords">>, [coords |-> data.f["c"]])
    ELSE Throw("TypeError")

\* Path.decode handing over the points last to first
PathDecode_Reversed(data) ==
    LET Reversed(points) ==
            IF points.t = "arr" /\ "pts" \in DOMAIN points
            THEN PtArr([i \in 1..Len(points.pts) |->
                           points.pts[Len(points.pts) + 1 - i]])
            ELSE points
    IN  Obj("Path", <<"coords">>, [coords |-> Reversed(Field(data, "points"))])

\* Path.decode: new Path(data.points)
PathDecode(data) == Obj("Path", <<"coords">>, [coords |-> Field(data, "points")])

\* Costmap.decode
CostmapDecode(data) ==
    LET Costmap(grid, origin) ==
            IF IsThrow(grid) THEN grid
            ELSE IF IsThrow(origin) THEN origin
            ELSE Obj("Costmap", <<"grid", "origin", "resolution", "origin_theta">>,
                     [grid |-> grid, origin |-> origin,
                      resolution |-> Field(data, "resolution"),
                      origin_theta |-> Field(data, "origin_theta")])
    IN  Costmap(GridDecode(Field(data, "grid")), VectorDecode(Field(data, "origin")))

\* decode throwing for a type it does not know
decode_ThrowOnUnknown(data) ==
    LET type == Field(data, "type")
    IN  IF type = Str("costmap") THEN CostmapDecode(data)
        ELSE IF type = Str("vector") THEN VectorDecode(data)
        ELSE IF type = Str("grid") THEN GridDecode(data)
        ELSE IF type = Str("path") THEN PathDecode(data)
        ELSE Throw("TypeError")

\* decoder.ts: decode
decode(data) ==
    LET type == Field(data, "type")
    IN  IF type = Str("costmap") THEN CostmapDecode(data)
        ELSE IF type = Str("vector") THEN VectorDecode(data)
        ELSE IF type = Str("grid") THEN GridDecode(data)
        ELSE IF type = Str("path") THEN PathDecode(data)
        ELSE Str("UNKNOWN")

----------------------------------------------------------------------------
(* init.ts: deepMerge, decodeDrawables, state_update, updateUI             *)

\* typeof v === "object" && v !== null && !Array.isArray(v)
IsMergeable(v) == v.t \in {"obj", "typed"}

\* the number a typed array stores when n is written to it
Coerce(arrayType, n) ==
    CASE arrayType = "i8" -> ((n + 128) % 256) - 128
      [] arrayType = "u8" -> n % 256
      [] OTHER -> n

RECURSIVE deepMerge(_, _)
RECURSIVE MergedValue(_, _, _)

\* an array is appended to the array that is there
MergedValue_ConcatArrays(source, destination, key) ==
    IF /\ key \in DOMAIN destination.f
       /\ IsMergeable(source.f[key])
       /\ IsMergeable(destination.f[key])
    THEN deepMerge(source.f[key], destination.f[key])
    ELSE IF /\ key \in DOMAIN destination.f
            /\ source.f[key].t = "arr" /\ destination.f[key].t = "arr"
            /\ DOMAIN source.f[key] = DOMAIN destination.f[key]
    THEN IF "nums" \in DOMAIN source.f[key]
         THEN NumArr(destination.f[key].nums \o source.f[key].nums)
         ELSE PtArr(destination.f[key].pts \o source.f[key].pts)
    ELSE source.f[key]

\* the body of the loop of deepMerge for one key of an object: what
\* destination[key] is after it
MergedValue(source, destination, key) ==
    IF /\ key \in DOMAIN destination.f
       /\ IsMergeable(source.f[key])
       /\ IsMergeable(destination.f[key])
    THEN deepMerge(source.f[key], destination.f[key])
    ELSE source.f[key]

\* the update takes the place of the state
deepMerge_Replace(source, destination) == source

\* deepMerge(source, destination): destination is changed in place and
\* returned.  for...in visits every key of source once: the own keys of an
\* object in insertion order (a key that destination lacks is added after
\* the keys it has), the indices of a typed array.  A typed array has a
\* fixed length: a write past its end is ignored, a write inside it
\* converts the number.
deepMerge(source, destination) ==
    CASE source.t = "obj" /\ destination.t = "obj" ->
            LET IsNewKey(key) == key \notin DOMAIN destination.f
            IN  [destination EXCEPT
                    !.f = [key \in DOMAIN destination.f \cup DOMAIN source.f |->
                              IF key \in DOMAIN source.f
                              THEN MergedValue(source, destination, key)
                              ELSE destination.f[key]],
                    !.ord = destination.ord \o SelectSeq(source.ord, IsNewKey)]
      [] source.t = "typed" /\ destination.t = "typed" ->
            [destination EXCEPT
                !.elems = [i \in 1..Len(destination.elems) |->
                              IF i <= Len(source.elems)
                              THEN Coerce(destination.dtype, source.elems[i])
                              ELSE destination.elems[i]]]
      [] OTHER -> Unmodelled

\* the value as the next handler finds it: every object existed before
RECURSIVE Age(_)
Age(v) ==
    CASE v.t = "obj" -> [v EXCEPT !.fresh = FALSE,
                                  !.f = [k \in DOMAIN v.f |-> Age(v.f[k])]]
      [] v.t = "typed" -> [v EXCEPT !.fresh = FALSE]
      [] OTHER -> v

\* v itself in the place of its copy
Spread_SameObject(v) == v

\* { ...v }: a new object with the same keys and the same values
Spread(v) == [v EXCEPT !.fresh = TRUE, !.cls = "Object"]

\* destination[key] = value on a plain object
SetKey(dst, key, value) ==
    [dst EXCEPT !.f = Put(dst.f, key, value),
                !.ord = IF key \in DOMAIN dst.f THEN @ ELSE Append(@, key)]

\* decodeDrawables leaving out the entries whose decoding throws
RECURSIVE DecodeEntries_SkipFailed(_, _, _)
DecodeEntries_SkipFailed(encoded, i, acc) ==
    LET Store(key, d) ==
            DecodeEntries_SkipFailed(encoded, i + 1,
                                     IF IsThrow(d) THEN acc ELSE SetKey(acc, key, d))
    IN  IF i > Len(encoded.ord) THEN acc
        ELSE Store(encoded.ord[i], decode(encoded.f[encoded.ord[i]]))

\* decodeDrawables; Object.entries of the draw field of the payload
RECURSIVE DecodeEntries(_, _, _)
DecodeEntries(encoded, i, acc) ==
    LET Store(key, d) ==
            IF IsThrow(d) THEN d
            ELSE DecodeEntries(encoded, i + 1, SetKey(acc, key, d))
    IN  IF i > Len(encoded.ord) THEN acc
        ELSE Store(encoded.ord[i], decode(encoded.f[encoded.ord[i]]))

decodeDrawables(encoded) ==
    IF encoded.t = "obj" THEN DecodeEntries(encoded, 1, Rec(<<>>, <<>>))
    ELSE Unmodelled

\* state_update, its first step: if (state.draw) state.draw =
\* decodeDrawables(state.draw); the payload with its drawables decoded, or
\* what decodeDrawables throws
DecodeUpdate(state) ==
    LET Decoded(drawables) ==
            IF IsThrow(drawables) THEN drawables
            ELSE [state EXCEPT !.f["draw"] = drawables]
    IN  IF ~Truthy(Field(state, "draw")) THEN state
        ELSE Decoded(decodeDrawables(state.f["draw"]))

\* Visualizer.visualizeState: this.state = { ...state }
\* and this.render()
visualizeState(vis, state) ==
    [vis EXCEPT !.state = Spread(state), !.renders = @ + 1, !.scheduled = TRUE]

\* updateUI handing the state to the visualizer twice
updateUI_Twice(current, vis) ==
    LET draw == Field(current, "draw")
    IN  IF Truthy(draw) /\ draw.t = "obj" /\ Len(draw.ord) > 0 /\ vis # Null
        THEN visualizeState(visualizeState(vis, draw), draw)
        ELSE vis

\* updateUI
updateUI(current, vis) ==
    LET draw == Field(current, "draw")
    IN  IF Truthy(draw) /\ draw.t = "obj" /\ Len(draw.ord) > 0 /\ vis # Null
        THEN visualizeState(vis, draw)
        ELSE vis

----------------------------------------------------------------------------
(* The server's messages: the wire records and the payloads the model      *)
(* delivers                                                                *)

WireVector(c) == Rec(<<"type", "c">>, [type |-> Str("vector"), c |-> NumArr(c)])

WirePath(points) ==
    Rec(<<"type", "points">>, [type |-> Str("path"), points |-> PtArr(points)])

WireGrid(shape, dtype, data) ==
    Rec(<<"type", "shape", "dtype", "compressed", "data">>,
        [type |-> Str("grid"), shape |-> NumArr(shape), dtype |-> Str(dtype),
         compressed |-> Bool(FALSE), data |-> Chars(data)])

WireCostmap(grid, origin, resolution) ==
    Rec(<<"type", "grid", "origin", "resolution", "origin_theta">>,
        [type |-> Str("costmap"), grid |-> grid, origin |-> WireVector(origin),
         resolution |-> Num(resolution), origin_theta |-> Num(0)])

WireBogus == Rec(<<"type">>, [type |-> Str("bogus")])

\* 1 x 2 cells of i8: bytes 1, 2
GridA == WireGrid(<<1, 2>>, "i8", <<"A", "Q", "I", "=">>)
\* 2 x 2 cells of i8: bytes 5, 6, 7, 8
GridB == WireGrid(<<2, 2>>, "i8", <<"B", "Q", "Y", "H", "C", "A", "=", "=">>)
\* 1 x 1 cell of i32: bytes 0, 1, 0, 0, the number 256
GridC == WireGrid(<<1, 1>>, "i32", <<"A", "A", "E", "A", "A", "A", "=", "=">>)
\* 1 x 2 cells of an unknown dtype: bytes 200, 3
GridWeird == WireGrid(<<1, 2>>, "weird", <<"y", "A", "M", "=">>)
\* not base64
\* 10 x 10 cells of i8: 100 bytes 0
GridWide ==
    WireGrid(<<10, 10>>, "i8", [i \in 1..134 |-> "A"] \o <<"=", "=">>)
GridBad == WireGrid(<<1, 2>>, "i8", <<"A", "?", "I", "=">>)

\* a payload with a draw field only
Draw(ord, f) == Rec(<<"draw">>, [draw |-> Rec(ord, f)])

Payloads ==
    << Draw(<<"a">>, [a |-> WireCostmap(GridA, <<0, 0>>, 1)]),
       Draw(<<"a">>, [a |-> WireCostmap(GridB, <<0, 0>>, 1)]),
       Draw(<<"a">>, [a |-> WireCostmap(GridC, <<0, 0>>, 1)]),
       Draw(<<"a">>, [a |-> WireCostmap(GridBad, <<0, 0>>, 1)]),
       Draw(<<"b">>, [b |-> WireVector(<<1, 2>>)]),
       Draw(<<"b">>, [b |-> WirePath(<< <<0, 0>>, <<1, 1>> >>)]),
       Draw(<<"b">>, [b |-> WireBogus]),
       Draw(<<"b">>, [b |-> GridA]),
       Rec(<<"draw", "data">>, [draw |-> Rec(<<"b">>, [b |-> GridBad]),
                               data |-> Rec(<<"x">>, [x |-> Num(1)])]),
       Rec(<<"data">>, [data |-> Rec(<<"x">>, [x |-> Num(1)])]),
       Rec(<<"draw">>, [draw |-> Null]),
       Draw(<<"b", "a">>, [b |-> WireVector(<<1, 2>>),
                          a |-> WireCostmap(GridA, <<0, 0>>, 1)]),
       Draw(<<"a">>, [a |-> WireCostmap(GridWide, <<0, 0>>, 1)]),
       Draw(<<"b">>, [b |-> WireVector(<<3, 4>>)]),
       Draw(<<"c">>, [c |-> WireCostmap(GridA, <<-2, 1>>, 2)]) >>

\* the payloads of the merge; the last three are for the drawing
PayloadIds == 1..12

\* the first step of state_update on each payload
DecodedPayloads ==
    [p \in 1..Len(Payloads) |->
        The({DecodeUpdate(state) : state \in {Payloads[p]}})]

\* The records decode is called with: grids of every shape, dtype and data
\* text below, the costmaps holding them, and records of other types, of
\* unknown types and without a type.  The data texts are the base64 of 1,
\* 2, 4, 8 and 16 bytes and of no byte, one of them with a byte above 127,
\* and texts with a character outside
\* the alphabet, of one character, without padding, with a blank, and with
\* "=" in the middle.
DecodeInputs ==
    LET shapes == {<<1, 1>>, <<1, 2>>, <<2, 2>>}
        dtypes == {"i8", "i32", "f32", "f64", "u8", "weird"}
        texts == {<<"A", "Q", "=", "=">>,
                  <<"A", "Q", "I", "=">>,
                  <<"y", "A", "M", "=">>,
                  <<"B", "Q", "Y", "H", "C", "A", "=", "=">>,
                  [i \in 1..11 |-> "A"] \o <<"=">>,
                  [i \in 1..22 |-> "A"] \o <<"=", "=">>,
                  <<>>,
                  <<"A", "?", "I", "=">>,
                  <<"A">>,
                  <<"A", "Q", "I">>,
                  <<"A", "Q", " ", "I", "=">>,
                  <<"A", "=", "Q", "I">>}
        grids == {WireGrid(shape, dtype, text) :
                     shape \in shapes, dtype \in dtypes, text \in texts}
    IN  grids
          \cup {WireCostmap(grid, <<0, 0>>, 1) : grid \in grids}
          \cup {WireVector(<<1, 2>>),
                WirePath(<< <<0, 0>>, <<1, 1>> >>),
                WireBogus,
                Rec(<<>>, <<>>),
                Rec(<<"c">>, [c |-> NumArr(<<1, 2>>)]),
                Rec(<<"type">>, [type |-> Null]),
                Rec(<<"type">>, [type |-> Num(0)]),
                Rec(<<"type", "c">>, [type |-> Str("Vector"), c |-> NumArr(<<1, 2>>)]),
                Rec(<<"type", "data">>,
                    [type |-> Str("image"), data |-> Chars(<<"A", "?", "I", "=">>)]),
                Rec(<<"type", "grid">>, [type |-> Str("costmap"), grid |-> GridA])}

----------------------------------------------------------------------------
(* init.ts: the handlers                                                   *)

\* let serverState = { status, connected_clients, data, draw }
initialServerState ==
    Rec(<<"status", "connected_clients", "data", "draw">>,
        [status |-> Str("disconnected"), connected_clients |-> Num(0),
         data |-> Rec(<<>>, <<>>), draw |-> Rec(<<>>, <<>>)])

\* the page after a handler: the state tree and the visualizer
Page(current, vis) == [serverState |-> current, reactVisualizer |-> vis]

\* state_update assigning the decoded update to serverState
Assign_state_update(current, vis, p) ==
    LET Assign(decoded) ==
            IF IsThrow(decoded) THEN Page(current, vis)
            ELSE Page(Spread(decoded), updateUI(decoded, vis))
    IN  Assign(DecodedPayloads[p])

\* state_update(state), state being the payload number p: a throw in
\* decodeDrawables leaves the handler before serverState is assigned
state_update(current, vis, p) ==
    LET Render(merged) == Page(merged, updateUI(merged, vis))
        Merge(decoded) ==
            IF IsThrow(decoded) THEN Page(current, vis)
            ELSE Render(Spread(deepMerge(decoded, Spread(current))))
    IN  Merge(DecodedPayloads[p])

\* socket.on("state_update", state_update)
on_state_update(current, vis, p) == state_update(current, vis, p)

\* a full_state handler of its own, which replaces the tree
on_full_state_Replace(current, vis, p) ==
    state_update(Rec(<<>>, <<>>), vis, p)

\* socket.on("full_state", state_update)
on_full_state(current, vis, p) == state_update(current, vis, p)

\* socket.on("connect") and socket.on("disconnect")
on_connect(current, vis) ==
    Page(SetKey(current, "status", Str("connected")), vis)

on_disconnect(current, vis) ==
    Page(SetKey(current, "status", Str("disconnected")), vis)

\* new Visualizer("#vis"), whose constructor calls render once.  renders
\* counts the calls of render the running handler has made; scheduled
\* says that root.render has been handed a state React has not rendered;
\* cleaned says that cleanup has been called.
NewVisualizer ==
    [t |-> "vis", state |-> Rec(<<>>, <<>>), onClickCallback |-> FALSE,
     renders |-> 1, scheduled |-> TRUE, cleaned |-> FALSE]

\* initializeApp, on DOMContentLoaded
initializeApp(current, vis) ==
    Page(current, updateUI(current, [NewVisualizer EXCEPT !.onClickCallback = TRUE]))

\* an event of the page: its name and the number of its payload (0: none)
Event(name, p) == [name |-> name, p |-> p]

\* the page after the handler of event e has run
Dispatch(current, vis, e) ==
    CASE e.name = "state_update" -> on_state_update(current, vis, e.p)
      [] e.name = "full_state" -> on_full_state(current, vis, e.p)
      [] e.name = "connect" -> on_connect(current, vis)
      [] e.name = "disconnect" -> on_disconnect(current, vis)
      [] e.name = "DOMContentLoaded" -> initializeApp(current, vis)

AgeVis(vis) ==
    IF vis = Null THEN vis ELSE [vis EXCEPT !.state = Age(@), !.renders = 0]

InstallPage(page) ==
    /\ serverState' = Age(page.serverState)
    /\ reactVisualizer' = AgeVis(page.reactVisualizer)

(* a state_update or full_state event arrives and its handler runs *)
StateEvent(name, p) ==
    /\ \E page \in {Dispatch(serverState, reactVisualizer, Event(name, p))} :
           InstallPage(page)
    /\ UNCHANGED <<inbox, delivered, handled, streamVars, codecVars, viewVars>>

(* the socket connects or disconnects *)
ConnectionEvent(name) ==
    /\ \E page \in {Dispatch(serverState, reactVisualizer, Event(name, 0))} :
           InstallPage(page)
    /\ UNCHANGED <<inbox, delivered, handled, streamVars, codecVars, viewVars>>

(* DOMContentLoaded: it fires once *)
DomContentLoaded ==
    /\ reactVisualizer = Null
    /\ \E page \in {Dispatch(serverState, reactVisualizer, Event("DOMContentLoaded", 0))} :
           InstallPage(page)
    /\ UNCHANGED <<inbox, delivered, handled, streamVars, codecVars, viewVars>>

----------------------------------------------------------------------------
(* The event queue of the page: socket.io and the DOM hand the events to   *)
(* the handlers one at a time, in the order of their arrival               *)

\* the events whose order is followed
OrderEvents ==
    {Event("state_update", 1), Event("state_update", 2), Event("state_update", 9),
     Event("state_update", 11), Event("full_state", 2), Event("full_state", 12),
     Event("connect", 0), Event("disconnect", 0), Event("DOMContentLoaded", 0)}

\* the newest event first
NextIndex_Newest(q) == Len(q)

\* the place in the queue of the event handled next: the oldest
NextIndex(q) == 1

(* an event arrives while the page is busy or idle: it waits in the queue *)
Deliver(e) ==
    /\ Len(delivered) < MaxDelivered
    /\ e.name = "DOMContentLoaded" =>
           \A i \in 1..Len(delivered) : delivered[i].name # "DOMContentLoaded"
    /\ inbox' = Append(inbox, e)
    /\ delivered' = Append(delivered, e)
    /\ UNCHANGED <<serverState, reactVisualizer, handled, streamVars, codecVars, viewVars>>

(* the page is idle: the handler of the next event runs to its end *)
HandleNext ==
    /\ inbox # <<>>
    /\ \E page \in {Dispatch(serverState, reactVisualizer, inbox[NextIndex(inbox)])} :
           InstallPage(page)
    /\ inbox' = RemoveAt(inbox, NextIndex(inbox))
    /\ handled' = handled + 1
    /\ UNCHANGED <<delivered, streamVars, codecVars, viewVars>>

----------------------------------------------------------------------------
(* vis2.tsx: the coordinate transform, the draw effect and the clicks      *)

\* A JavaScript number of the drawing is kept exact: the fraction n / d in
\* lowest terms, d > 0.
Frac(n, d) ==
    LET RECURSIVE Gcd(_, _)
        Gcd(a, b) == IF b = 0 THEN a ELSE Gcd(b, a % b)
        Abs(x) == IF x < 0 THEN -x ELSE x
        Lowest(g) == <<((IF d < 0 THEN -1 ELSE 1) * n) \div g, Abs(d) \div g>>
    IN  Lowest(Gcd(Abs(n), Abs(d)))

\* Math.min yielding its first argument
Calc_MinIsFirst(a, op, b) ==
    CASE op = "+" -> Frac(a[1] * b[2] + b[1] * a[2], a[2] * b[2])
      [] op = "-" -> Frac(a[1] * b[2] - b[1] * a[2], a[2] * b[2])
      [] op = "*" -> Frac(a[1] * b[1], a[2] * b[2])
      [] op = "/" -> Frac(a[1] * b[2], a[2] * b[1])
      [] op = "min" -> a

\* a + b, a - b, a * b, a / b and Math.min(a, b)
Calc(a, op, b) ==
    CASE op = "+" -> Frac(a[1] * b[2] + b[1] * a[2], a[2] * b[2])
      [] op = "-" -> Frac(a[1] * b[2] - b[1] * a[2], a[2] * b[2])
      [] op = "*" -> Frac(a[1] * b[1], a[2] * b[2])
      [] op = "/" -> Frac(a[1] * b[2], a[2] * b[1])
      [] op = "min" -> IF a[1] * b[2] <= b[1] * a[2] THEN a ELSE b

\* d3.scaleLinear().domain(domain).range(range) at x: x is normalised over
\* the domain (an empty domain gives 0.5) and interpolated over the range;
\* .invert is the same scale with domain and range exchanged
scaleLinear(domain, range, x) ==
    LET Interpolate(t) ==
            Calc(Calc(range[1], "*", Calc(Frac(1, 1), "-", t)), "+",
                 Calc(range[2], "*", t))
    IN  Interpolate(IF domain[1] = domain[2] THEN Frac(1, 2)
                    ELSE Calc(Calc(x, "-", domain[1]), "/",
                              Calc(domain[2], "-", domain[1])))

\* Object.values(state).find(d => d instanceof Costmap), undefined read as
\* null
ReferenceCostmap(state) ==
    LET IsCostmap(key) == state.f[key].t = "obj" /\ state.f[key].cls = "Costmap"
        Found(keys) == IF keys = <<>> THEN Null ELSE state.f[keys[1]]
    IN  Found(SelectSeq(state.ord, IsCostmap))

\* the sizing and centring of the grid of the Costmap ref in a viewport of
\* width x height, and the two ends of the world and of the pixels on each
\* axis
Scales(ref, width, height) ==
    LET rows == Frac(ref.f["grid"].f["shape"].nums[1], 1)
        cols == Frac(ref.f["grid"].f["shape"].nums[2], 1)
        originX == Frac(ref.f["origin"].f["coords"].nums[1], 1)
        originY == Frac(ref.f["origin"].f["coords"].nums[2], 1)
        resolution == Frac(ref.f["resolution"].num, 1)
        Extents(cell) ==
            LET gridW == Calc(cols, "*", cell)
                gridH == Calc(rows, "*", cell)
                offsetX == Calc(Calc(Frac(width, 1), "-", gridW), "/", Frac(2, 1))
                offsetY == Calc(Calc(Frac(height, 1), "-", gridH), "/", Frac(2, 1))
            IN  [worldX |-> <<originX, Calc(originX, "+", Calc(cols, "*", resolution))>>,
                 pixelX |-> <<offsetX, Calc(offsetX, "+", gridW)>>,
                 worldY |-> <<originY, Calc(originY, "+", Calc(rows, "*", resolution))>>,
                 pixelY |-> <<Calc(offsetY, "+", gridH), offsetY>>,
                 translate |-> <<offsetX, offsetY>>]
    IN  Extents(Calc(Calc(Frac(width, 1), "/", cols), "min",
                     Calc(Frac(height, 1), "/", rows)))

\* worldToPx and pxToWorld without a Costmap
Undefined == [t |-> "undefined"]

\* React.useMemo(() => ..., [state]): the scales of worldToPx and
\* pxToWorld, computed in a render whose state is another object than in
\* the render before (changed), and kept otherwise
useMemo(memo, changed, state, width, height) ==
    IF ~changed THEN memo
    ELSE IF ReferenceCostmap(state) = Null THEN Undefined
    ELSE Scales(ReferenceCostmap(state), width, height)

\* worldToPxFn: [xScale(x), yScale(y)]
worldToPx(scales, p) ==
    <<scaleLinear(scales.worldX, scales.pixelX, p[1]),
      scaleLinear(scales.worldY, scales.pixelY, p[2])>>

\* pxToWorld not knowing that the pixels of the y axis run downwards
pxToWorld_NoFlip(scales, p) ==
    <<scaleLinear(scales.pixelX, scales.worldX, p[1]),
      scaleLinear(<<scales.pixelY[2], scales.pixelY[1]>>, scales.worldY, p[2])>>

\* pxToWorldFn: [xScale.invert(x), yScale.invert(y)]
pxToWorld(scales, p) ==
    <<scaleLinear(scales.pixelX, scales.worldX, p[1]),
      scaleLinear(scales.pixelY, scales.worldY, p[2])>>

\* the fallback taking the top left corner for the origin of the world
Place_Corner(wp, width, height, p) ==
    IF wp # Undefined THEN worldToPx(wp, <<Frac(p[1], 1), Frac(p[2], 1)>>)
    ELSE <<Frac(p[1], 1), Frac(-p[2], 1)>>

\* wp ? wp(x, y) : [width / 2 + x, height / 2 - y]
Place(wp, width, height, p) ==
    IF wp # Undefined THEN worldToPx(wp, <<Frac(p[1], 1), Frac(p[2], 1)>>)
    ELSE <<Calc(Frac(width, 2), "+", Frac(p[1], 1)),
           Calc(Frac(height, 2), "-", Frac(p[2], 1))>>

\* the draw effect: the svg is emptied and the drawables of the state are
\* drawn; what the svg holds for each key, or what the effect throws.
\* visualiseCostmap gives the translation of the group of a Costmap,
\* visualisePath the points of the line of a Path of two points or more,
\* visualiseVector the centre of the marker of a Vector.  A Path whose
\* coords are no list of points throws (path.coords.length, or the
\* destructuring [x, y] of a number); the marker of a Vector whose coords
\* are no numbers is at no place (NaN, written 0 / 0).
DrawEffect(state, wp, width, height) ==
    LET Throws(d) ==
            /\ d.t = "obj" /\ d.cls = "Path"
            /\ \/ Field(d, "coords").t # "arr"
               \/ "pts" \notin DOMAIN d.f["coords"]
        Visualise(d) ==
            CASE d.t = "obj" /\ d.cls = "Costmap" ->
                    <<Scales(d, width, height).translate>>
              [] d.t = "obj" /\ d.cls = "Path" ->
                    IF Len(d.f["coords"].pts) < 2 THEN <<>>
                    ELSE [i \in 1..Len(d.f["coords"].pts) |->
                             Place(wp, width, height, d.f["coords"].pts[i])]
              [] d.t = "obj" /\ d.cls = "Vector" ->
                    IF Field(d, "coords").t # "arr"
                         \/ "nums" \notin DOMAIN d.f["coords"]
                    THEN << <<<<0, 0>>, <<0, 0>>>> >>
                    ELSE <<Place(wp, width, height, d.f["coords"].nums)>>
              [] OTHER -> <<>>
    IN  IF \E key \in DOMAIN state.f : Throws(state.f[key])
        THEN Throw("TypeError")
        ELSE [t |-> "svg",
              marks |-> [key \in {k \in DOMAIN state.f :
                                    Visualise(state.f[k]) # <<>>} |->
                            Visualise(state.f[key])]]

\* useState({ width: 800, height: 600 })
DefaultDimensions == [width |-> 800, height |-> 600]

\* the sizes the container of the visualiser takes
Viewports == {[width |-> 500, height |-> 500], [width |-> 1000, height |-> 500]}

\* handleGlobalClick, from the Costmap to the world coordinates: the
\* scales from the pixels to the world, at the point of the svg
ClickToWorld(costmap, size, point) ==
    LET World(scales) ==
            <<scaleLinear(scales.pixelX, scales.worldX, point[1]),
              scaleLinear(scales.pixelY, scales.worldY, point[2])>>
    IN  World(Scales(costmap, size.width, size.height))

\* handleGlobalClick without the test of the container's rectangle
handleGlobalClick_Anywhere(vis, mounted, size, at, corner) ==
    IF ~vis.onClickCallback THEN <<>>
    ELSE IF ~mounted THEN <<>>
    ELSE IF ReferenceCostmap(vis.state) = Null THEN <<>>
    ELSE <<[type |-> "click",
            position |-> ClickToWorld(ReferenceCostmap(vis.state), size,
                                      <<Calc(at[1], "-", corner[1]),
                                        Calc(at[2], "-", corner[2])>>)]>>

\* Visualizer.handleGlobalClick for a click at the point at of the svg
\* (viewportX, viewportY), the svg of the given size having its top left
\* corner at the client coordinates corner: the messages the callback of
\* initializeApp sends, emitMessage({ type: "click", position: [worldX,
\* worldY] }).  The svg fills the container, and its viewBox is its size, so
\* the screen matrix of the svg is the translation by corner, and its
\* inverse takes corner off the point once more.
handleGlobalClick(vis, mounted, size, at, corner) ==
    IF ~vis.onClickCallback THEN <<>>
    ELSE IF \/ at[1][1] < 0 \/ at[1][1] > size.width * at[1][2]
            \/ at[2][1] < 0 \/ at[2][1] > size.height * at[2][2]
    THEN <<>>
    ELSE IF ~mounted THEN <<>>
    ELSE IF ReferenceCostmap(vis.state) = Null THEN <<>>
    ELSE <<[type |-> "click",
            position |-> ClickToWorld(ReferenceCostmap(vis.state), size,
                                      <<Calc(at[1], "-", corner[1]),
                                        Calc(at[2], "-", corner[2])>>)]>>

(* React renders the component for the state handed to root.render and    *)
(* runs its effects; the first time, the component has the default        *)
(* dimensions, and updateDimensions then takes the size of the container  *)
Commit(size) ==
    /\ reactVisualizer # Null
    /\ reactVisualizer.scheduled
    /\ transformer # Null => size = dimensions
    /\ \E at \in {IF transformer = Null THEN DefaultDimensions ELSE dimensions} :
         \E wp \in {useMemo(transformer, TRUE, reactVisualizer.state,
                            at.width, at.height)} :
           /\ transformer' = wp
           /\ drawn' = DrawEffect(reactVisualizer.state, wp, at.width, at.height)
    /\ dimensions' = size
    /\ reactVisualizer' = [reactVisualizer EXCEPT !.scheduled = FALSE]
    /\ UNCHANGED <<serverState, inbox, delivered, handled, emitted,
                   streamVars, codecVars>>

(* the container takes another size: the ResizeObserver of the component  *)
(* runs updateDimensions, and the component renders with the state it had; *)
(* the draw effect, whose dependencies are what they were, does not run    *)
Resize(size) ==
    /\ transformer # Null /\ ~IsThrow(drawn)
    /\ size # dimensions
    /\ dimensions' = size
    /\ transformer' = useMemo(transformer, FALSE, reactVisualizer.state,
                              size.width, size.height)
    /\ UNCHANGED <<drawn, emitted, visVars, streamVars, codecVars>>

(* Visualizer.cleanup(): the ResizeObserver of the Visualizer is           *)
(* disconnected; removeEventListener is given                              *)
(* this.handleGlobalClick.bind(this), a function made by this call, which  *)
(* is not the listener the constructor added, so the listener stays; the   *)
(* callback stays as well                                                  *)
cleanup ==
    /\ reactVisualizer # Null
    /\ ~reactVisualizer.cleaned
    /\ reactVisualizer' = [reactVisualizer EXCEPT !.cleaned = TRUE]
    /\ UNCHANGED <<serverState, inbox, delivered, handled, viewVars,
                   streamVars, codecVars>>

(* a click in the window, once the Visualizer listens *)
Click(at, corner) ==
    /\ reactVisualizer # Null
    /\ Len(emitted) < MaxEmitted
    /\ emitted' = emitted \o handleGlobalClick(reactVisualizer,
                             transformer # Null /\ ~IsThrow(drawn),
                             dimensions, at, corner)
    /\ UNCHANGED <<dimensions, transformer, drawn, visVars, streamVars, codecVars>>

----------------------------------------------------------------------------
(* Properties of the visualiser client                                     *)

DrawOf(tree) == Field(tree, "draw")
DrawKeys(tree) == IF DrawOf(tree).t = "obj" THEN DOMAIN DrawOf(tree).f ELSE {}
IsDrawable(v) == v.t = "obj" /\ v.cls \in {"Grid", "Vector", "Path", "Costmap"}

\* the Grids of the tree: the values of draw and the grid of a Costmap
GridsOf(tree) ==
    LET values == {DrawOf(tree).f[k] : k \in DrawKeys(tree)}
        nested == {Field(v, "grid") : v \in {w \in values : HasField(w, "grid")}}
    IN  {g \in values \cup nested : g.t = "obj" /\ g.cls = "Grid"}

\* the state tree after state_update(Payloads[p]) on the tree current
Applied(current, p) ==
    Age(state_update(current, reactVisualizer, p).serverState)

\* a value as a mapping: the order of the keys and the identity of the
\* objects put aside
RECURSIVE AsMapping(_)
AsMapping(v) ==
    CASE v.t = "obj" -> [t |-> "obj", cls |-> v.cls,
                         f |-> [k \in DOMAIN v.f |-> AsMapping(v.f[k])]]
      [] v.t = "typed" -> [t |-> "typed", dtype |-> v.dtype, elems |-> v.elems]
      [] OTHER -> v

\* the keys an update touches: the keys below draw and data, and the
\* other top-level keys
Touched(state) ==
    UNION {IF state.f[k].t = "obj"
           THEN {<<k, j>> : j \in DOMAIN state.f[k].f}
           ELSE {<<k>>} : k \in DOMAIN state.f}

\* no key of A is a key of B, or lies below or above one
DisjointKeys(A, B) ==
    \A x \in Touched(A), y \in Touched(B) :
        \/ x[1] # y[1]
        \/ Len(x) = 2 /\ Len(y) = 2 /\ x[2] # y[2]

\* the events a page can receive
AllEvents ==
    {Event(name, p) : name \in {"state_update", "full_state"}, p \in PayloadIds}
        \cup {Event("connect", 0), Event("disconnect", 0)}

\* C4: after any sequence of state_update and full_state events every
\* value of the draw mapping is a decoded Grid, Vector, Path or Costmap
C4_DrawHoldsDrawables ==
    \A k \in DrawKeys(serverState) : IsDrawable(DrawOf(serverState).f[k])

\* C5: every Grid of the state tree, at the top of draw or inside a
\* Costmap, has len(data) = rows * cols
C5_GridDataMatchesShape ==
    \A g \in GridsOf(serverState) :
        Len(g.f["data"].elems) = g.f["shape"].nums[1] * g.f["shape"].nums[2]

\* C6: no handler changes a drawable that is stored in the draw mapping:
\* after any event, the object that was stored under a key is as it was
\* (an update for the key puts a new object in its place)
C6_DecodedDrawablesImmutable ==
    \A e \in AllEvents :
        LET after == Dispatch(serverState, reactVisualizer, e).serverState
        IN  \A k \in DrawKeys(serverState) \cap DrawKeys(after) :
                LET old == DrawOf(serverState).f[k]
                    new == DrawOf(after).f[k]
                IN  (old.t = "obj" /\ new.t = "obj" /\ ~new.fresh) => Age(new) = old

\* C7: from any state tree, applying a state_update payload twice in
\* sequence yields the tree that applying it once yields
C7_Idempotent ==
    \A p \in PayloadIds :
        Applied(Applied(serverState, p), p) = Applied(serverState, p)

\* a state tree with a Costmap under "a" that an update for "a" changes,
\* and applying it a second time changes nothing more
C7_Witness ==
    /\ "a" \in DrawKeys(serverState)
    /\ \E p \in PayloadIds :
          /\ Applied(serverState, p) # serverState
          /\ DrawOf(Applied(serverState, p)).f["a"] # DrawOf(serverState).f["a"]
          /\ Applied(Applied(serverState, p), p) = Applied(serverState, p)

\* C8: from any state tree, two updates that touch disjoint keys yield the
\* same tree (the same keys with the same values) in either order
C8_DisjointUpdatesCommute ==
    \A p \in PayloadIds, q \in PayloadIds :
        (p < q /\ DisjointKeys(Payloads[p], Payloads[q])) =>
            AsMapping(Applied(Applied(serverState, p), q))
                = AsMapping(Applied(Applied(serverState, q), p))

\* a state tree with drawables under "a" and "b" that two updates, one for
\* "a" and one for "b", both change
C8_Witness ==
    /\ {"a", "b"} \subseteq DrawKeys(serverState)
    /\ \E p \in PayloadIds, q \in PayloadIds :
          /\ p < q /\ DisjointKeys(Payloads[p], Payloads[q])
          /\ DrawOf(Applied(serverState, p)).f["a"] # DrawOf(serverState).f["a"]
          /\ DrawOf(Applied(serverState, q)).f["b"] # DrawOf(serverState).f["b"]
          /\ AsMapping(Applied(Applied(serverState, p), q))
                = AsMapping(Applied(Applied(serverState, q), p))

RECURSIVE Replay(_, _)
Replay(es, n) ==
    IF n = 0 THEN Page(Age(initialServerState), Null)
    ELSE LET before == Replay(es, n - 1)
             after == Dispatch(before.serverState, before.reactVisualizer, es[n])
         IN  Page(Age(after.serverState), AgeVis(after.reactVisualizer))

----------------------------------------------------------------------------
(* Part II: properties of decode                                           *)

\* a record whose type is missing or none of the four decode knows
Unrecognised(data) ==
    Field(data, "type") \notin
        {Str("costmap"), Str("vector"), Str("grid"), Str("path")}

C18_UnknownEntryDropped ==
    \A p \in PayloadIds :
        LET entries == Field(Payloads[p], "draw")
            before == DrawOf(serverState)
            after == DrawOf(Applied(serverState, p))
        IN  entries.t = "obj" =>
                \A key \in DOMAIN entries.f :
                    Unrecognised(entries.f[key]) =>
                        /\ HasField(after, key) <=> HasField(before, key)
                        /\ Field(after, key) = Field(before, key)

\* the Grid record a wire record is or holds
EncodedGridOf(data) ==
    IF Field(data, "type") = Str("grid") THEN data
    ELSE IF Field(data, "type") = Str("costmap") THEN Field(data, "grid")
    ELSE Null

\* the Grid a decoded value is or holds
DecodedGridOf(v) ==
    IF v.t = "obj" /\ v.cls = "Grid" THEN v
    ELSE IF v.t = "obj" /\ v.cls = "Costmap" THEN v.f["grid"]
    ELSE Null

\* the "=" at the end of a text, two at most
PaddingOf(cs) ==
    IF Len(cs) > 0 /\ cs[Len(cs)] = "="
    THEN IF Len(cs) > 1 /\ cs[Len(cs) - 1] = "=" THEN 2 ELSE 1
    ELSE 0

\* base64 as the server writes it (RFC 4648, section 4): groups of four
\* characters of the alphabet, the last group padded with "="
IsBase64(cs) ==
    /\ Len(cs) % 4 = 0
    /\ \A i \in 1..(Len(cs) - PaddingOf(cs)) : IsB64Char(cs[i])

\* C19: decode called with a Grid record, or a Costmap record holding one,
\* whose data is not base64 throws: it returns no Grid, no Costmap and no
\* sentinel.
C19_MalformedBase64Throws ==
    LET msg == EncodedGridOf(decodeArg)
    IN  (/\ decodeResult # NotDecoded
         /\ HasField(msg, "data")
         /\ ~IsBase64(msg.f["data"].chars)) => IsThrow(decodeResult)

\* a Grid record of one of the dtypes of DTYPE whose data is the base64 of
\* rows * cols elements
ValidGrid(msg) ==
    /\ HasField(msg, "data")
    /\ msg.f["dtype"].str \in {"f32", "f64", "i32", "i8"}
    /\ IsBase64(msg.f["data"].chars)
    /\ (Len(msg.f["data"].chars) \div 4) * 3 - PaddingOf(msg.f["data"].chars)
          = msg.f["shape"].nums[1] * msg.f["shape"].nums[2]
              * BytesPerElement(msg.f["dtype"].str)

\* C20: decode called with a valid Grid record, or with a Costmap record
\* that holds one and has its origin, yields a Grid whose shape is the declared shape and whose
\* data is an array of the declared dtype with rows * cols elements.
C20_ValidGridDecodes ==
    LET msg == EncodedGridOf(decodeArg)
        grid == DecodedGridOf(decodeResult)
    IN  (/\ decodeResult # NotDecoded
         /\ ValidGrid(msg)
         /\ msg # decodeArg => HasField(decodeArg, "origin")) =>
            /\ grid # Null
            /\ grid.f["shape"] = msg.f["shape"]
            /\ grid.f["data"].dtype = msg.f["dtype"].str
            /\ Len(grid.f["data"].elems)
                  = msg.f["shape"].nums[1] * msg.f["shape"].nums[2]

\* a valid grid of 1 x 2 cells of f64 has been decoded inside a Costmap
C20_Witness ==
    /\ decodeResult.t = "obj" /\ decodeResult.cls = "Costmap"
    /\ ValidGrid(EncodedGridOf(decodeArg))
    /\ decodeArg.f["grid"].f["dtype"] = Str("f64")
    /\ decodeArg.f["grid"].f["shape"] = NumArr(<<1, 2>>)
    /\ Len(decodeResult.f["grid"].f["data"].elems) = 2

C26_UpdateGivesNewReferences ==
    \A name \in {"state_update", "full_state"}, p \in PayloadIds :
        LET New(page) ==
                /\ page.serverState.fresh
                /\ (page.reactVisualizer # Null /\ page.reactVisualizer.renders > 0) =>
                       page.reactVisualizer.state.fresh
        IN  ~IsThrow(DecodedPayloads[p]) =>
                New(Dispatch(serverState, reactVisualizer, Event(name, p)))

\* a page with its visualizer and a drawable, where an update that changes
\* nothing in the tree still gives a new tree and hands over a new state
C26_Witness ==
    /\ reactVisualizer # Null
    /\ "b" \in DrawKeys(serverState)
    /\ \E p \in PayloadIds :
          LET page == Dispatch(serverState, reactVisualizer, Event("state_update", p))
          IN  /\ Age(page.serverState) = serverState
              /\ page.serverState.fresh
              /\ page.reactVisualizer.renders = 1
              /\ page.reactVisualizer.state.fresh

\* C27 as stated: the handler of a state_update or full_state event whose
\* payload decodes calls render exactly once, with the draw mapping of the
\* merged tree.
C27_UpdateRendersOnce ==
    \A name \in {"state_update", "full_state"}, p \in PayloadIds :
        LET Rendered(page) ==
                /\ page.reactVisualizer # Null
                /\ page.reactVisualizer.renders = 1
                /\ page.reactVisualizer.state.ord = DrawOf(page.serverState).ord
                /\ page.reactVisualizer.state.f = DrawOf(page.serverState).f
        IN  ~IsThrow(DecodedPayloads[p]) =>
                Rendered(Dispatch(serverState, reactVisualizer, Event(name, p)))

\* C27, amended: the handler of a state_update or full_state event whose
\* payload decodes calls render exactly once, with the draw mapping of the
\* merged tree, when the visualizer exists and that draw mapping holds a
\* key; otherwise it calls render not at all and leaves the visualizer as
\* it is.
C27_UpdateRendersOnceWhenDrawn ==
    \A name \in {"state_update", "full_state"}, p \in PayloadIds :
        LET Rendered(page) ==
                IF reactVisualizer # Null /\ DrawKeys(page.serverState) # {}
                THEN /\ page.reactVisualizer.renders = 1
                     /\ page.reactVisualizer.state.ord = DrawOf(page.serverState).ord
                     /\ page.reactVisualizer.state.f = DrawOf(page.serverState).f
                ELSE page.reactVisualizer = reactVisualizer
        IN  ~IsThrow(DecodedPayloads[p]) =>
                Rendered(Dispatch(serverState, reactVisualizer, Event(name, p)))

\* a page with its visualizer where an update adds a key to a draw mapping
\* that holds one, and the visualizer is handed both
C27_Witness ==
    /\ reactVisualizer # Null
    /\ DrawKeys(serverState) = {"a"}
    /\ \E p \in PayloadIds :
          LET page == Dispatch(serverState, reactVisualizer, Event("full_state", p))
          IN  /\ page.reactVisualizer.renders = 1
              /\ DOMAIN page.reactVisualizer.state.f = {"a", "b"}

\* C28: the tree after an update is the merge the rule describes: a key of
\* the update whose value and whose value in the tree are both objects
\* (not null, no arrays) is merged by the same rule, any other key of the
\* update takes the update's value whole, arrays of every kind included,
\* and the keys the update lacks keep their values.
C28_MergeFollowsRule ==
    LET RECURSIVE ByRule(_, _)
        ByRule(update, tree) ==
            [key \in DOMAIN tree.f \cup DOMAIN update.f |->
                IF key \notin DOMAIN update.f THEN AsMapping(tree.f[key])
                ELSE IF /\ key \in DOMAIN tree.f
                        /\ update.f[key].t = "obj"
                        /\ tree.f[key].t = "obj"
                THEN [t |-> "obj", cls |-> tree.f[key].cls,
                      f |-> ByRule(update.f[key], tree.f[key])]
                ELSE AsMapping(update.f[key])]
    IN  \A p \in PayloadIds :
            ~IsThrow(DecodedPayloads[p]) =>
                AsMapping(Applied(serverState, p)).f
                    = ByRule(DecodedPayloads[p], serverState)

\* C29: a call of retryConnection for a key whose retry count n is below
\* MAX_RETRIES (the key's retry timer firing, or the error of a load while
\* the count is 0 or unset) sets the count to n+1, publishes the message
\* "Connection attempt (n+1)/60... (T s remaining)" with
\* T = (TOTAL_TIMEOUT - (n+1)*RETRY_INTERVAL)/1000, stamps the key with the
\* current time, which for a timer tick differs from the stamp the key had,
\* and leaves exactly one retry timer of the key pending.
C29_RetryTick ==
    [][\A k \in Keys :
          LET n == Count(k)
              TimerTick == TimerDue(k)
              FirstTick == ImgError(k) /\ CountIsFalsy(retryCount, k)
          IN  (n < MAX_RETRIES /\ (TimerTick \/ FirstTick)) =>
                /\ Has(retryCount', k) /\ retryCount'[k] = n + 1
                /\ Has(errorMessages', k)
                /\ errorMessages'[k].kind = "attempt"
                /\ errorMessages'[k].n = n + 1
                /\ errorMessages'[k].secs * 1000
                       = TOTAL_TIMEOUT - (n + 1) * RETRY_INTERVAL
                /\ Has(timestamps', k) /\ timestamps'[k] = now
                /\ TimerTick => (timestamps'[k] # timestamps[k])
                /\ Has(retryTimers', k) /\ retryTimers'[k] = PendingHandle
                /\ orphanTimers'[k] = 0]_vars

\* the last attempt of the budget: the timer has fired with the count at
\* 59, the message reads attempt 60/60 with 0 s remaining, the stamp is the
\* time of the tick and one more timer is pending
C29_Witness ==
    /\ Count("cam0") = MAX_RETRIES
    /\ MessageOf("cam0") = AttemptMessage(MAX_RETRIES, 0)
    /\ Has(timestamps, "cam0") /\ timestamps["cam0"] = now
    /\ now >= MAX_RETRIES * RETRY_INTERVAL
    /\ TimerPending("cam0")

C34_FailedDecodeChangesNothing ==
    \A name \in {"state_update", "full_state"}, p \in PayloadIds :
        LET EntryThrows(draw) ==
                \E key \in DOMAIN draw.f : IsThrow(decode(draw.f[key]))
        IN  (/\ HasField(Payloads[p], "draw")
             /\ Payloads[p].f["draw"].t = "obj"
             /\ EntryThrows(Payloads[p].f["draw"])) =>
                Dispatch(serverState, reactVisualizer, Event(name, p))
                    = Page(serverState, reactVisualizer)

\* the page renders and its tree has drawables but no data.x; the update
\* {draw: {b: a Grid whose data is not base64}, data: {x: 1}} changes
\* nothing
C34_Witness ==
    /\ reactVisualizer # Null
    /\ DrawKeys(serverState) # {}
    /\ ~HasField(Field(serverState, "data"), "x")
    /\ IsThrow(decode(Payloads[9].f["draw"].f["b"]))
    /\ on_state_update(serverState, reactVisualizer, 9)
          = Page(serverState, reactVisualizer)

\* C35: at any time the browser holds at most one pending retry timer for
\* each stream key: the one retryTimers refers to, if any, and none whose
\* handle was overwritten while it was pending.
C35_OneTimerPerKey ==
    \A k \in Keys :
        LET tracked == IF Has(retryTimers, k) /\ retryTimers[k] = PendingHandle
                       THEN 1 ELSE 0
        IN  tracked + orphanTimers[k] <= 1

\* cam0 is at its first attempt with its timer pending while cam1 is at
\* its last attempt with its timer pending
C35_Witness ==
    /\ Count("cam0") = 1 /\ Retrying("cam0")
    /\ Has(retryTimers, "cam0") /\ retryTimers["cam0"] = PendingHandle
    /\ Count("cam1") = MAX_RETRIES /\ Retrying("cam1")
    /\ Has(retryTimers, "cam1") /\ retryTimers["cam1"] = PendingHandle
    /\ orphanTimers = [k \in Keys |-> 0]

\* C36: a retry timer is pending only for a key that is displayed: a key
\* that is not among the streamKeys of a shown stream store has no pending
\* timer, so no retry tick runs for it.
C36_TimerOnlyForDisplayedKeys ==
    \A k \in Keys : TimerPending(k) => Displayed(k)

\* C37: hideStream invoked while a showStream call awaits its fetch decides
\* the outcome.  The store is initialState with a showStream call pending
\* exactly when hideStream was the last operation invoked; the pending call
\* resuming from there leaves the view hidden: isVisible false, url null
\* and no stream keys.
C37_LastInvokedWins ==
    [][(/\ streamStore = initialState
        /\ pendingShow # <<>>
        /\ Len(pendingShow') < Len(pendingShow)) =>
            /\ ~streamStore'.isVisible
            /\ streamStore'.url = "null"
            /\ streamStore'.streamKeys = {}]_vars

\* C38: after any connectTextStream, disconnectTextStream and error events,
\* every text-stream key has at most one event source that is not closed,
\* and the registry holds the key exactly when it has one, which is the
\* source the registry holds; a step that takes a source out of the
\* registry (a connect of its key, a disconnect, an error) leaves that
\* source closed.
C38_RegistryMatchesOpenSources ==
    /\ [](\A key \in {"agent", "log"} :
             LET open == {i \in 1..Len(eventSources) :
                             /\ eventSources[i].key = key
                             /\ eventSources[i].readyState # "closed"}
             IN  /\ Cardinality(open) <= 1
                 /\ Has(textEventSources, key) <=> open # {}
                 /\ Has(textEventSources, key) => open = {textEventSources[key]})
    /\ [][\A key \in {"agent", "log"} :
             (/\ Has(textEventSources, key)
              /\ ~(Has(textEventSources', key)
                     /\ textEventSources'[key] = textEventSources[key])) =>
                 eventSources'[textEventSources[key]].readyState = "closed"]_vars

\* the key "agent" has been connected three times and "log" once: the
\* first two sources of "agent" are closed, the third is open and is the
\* one the registry holds
C38_Witness ==
    /\ Len(eventSources) = 4
    /\ Has(textEventSources, "agent") /\ textEventSources["agent"] = 4
    /\ Has(textEventSources, "log")
    /\ Cardinality({i \in 1..4 : eventSources[i].key = "agent"}) = 3
    /\ Cardinality({i \in 1..4 : eventSources[i].readyState = "closed"}) = 2

----------------------------------------------------------------------------
(* Properties of the coordinate transform, the drawing and the clicks      *)

\* C22: toWorld is the inverse of toPixel.  For the scales the component
\* holds, pxToWorld(worldToPx(p)) = p, and for the reference Costmap of the
\* Visualizer and the size of the svg, the scales of handleGlobalClick take
\* worldToPx(p) back to p, for the world points (3, 4), (0, 0) and
\* (-1, 5/2); the Costmaps have positive resolution and shape.
C22_ToWorldInvertsToPixel ==
    LET Points == {<<Frac(3, 1), Frac(4, 1)>>, <<Frac(0, 1), Frac(0, 1)>>,
                   <<Frac(-1, 1), Frac(5, 2)>>}
        ClickInverts(ref) ==
            \A p \in Points :
                ClickToWorld(ref, dimensions,
                             worldToPx(Scales(ref, dimensions.width,
                                              dimensions.height), p)) = p
    IN  /\ transformer \notin {Null, Undefined} =>
               \A p \in Points : pxToWorld(transformer, worldToPx(transformer, p)) = p
        /\ reactVisualizer # Null =>
               (ReferenceCostmap(reactVisualizer.state) # Null =>
                    ClickInverts(ReferenceCostmap(reactVisualizer.state)))

\* origin (0, 0), resolution 1, shape (10, 10) and a viewport of 500 x 500:
\* the Vector (3, 4) is drawn at the pixel (150, 300), and the click at that
\* pixel has reported the world point (3, 4)
C22_Witness ==
    /\ dimensions = [width |-> 500, height |-> 500]
    /\ transformer \notin {Null, Undefined}
    /\ transformer.worldX = <<Frac(0, 1), Frac(10, 1)>>
    /\ transformer.pixelX = <<Frac(0, 1), Frac(500, 1)>>
    /\ transformer.pixelY = <<Frac(500, 1), Frac(0, 1)>>
    /\ ~IsThrow(drawn)
    /\ "b" \in DOMAIN drawn.marks
    /\ drawn.marks["b"] = << <<Frac(150, 1), Frac(300, 1)>> >>
    /\ emitted = <<[type |-> "click", position |-> <<Frac(3, 1), Frac(4, 1)>>]>>

\* C23: a render of the component for a state that holds no Costmap does
\* not fail, worldToPx is undefined, and the draw effect puts the marker of
\* every Vector (x, y) and every point (x, y) of every Path of two points
\* or more at the pixel (width / 2 + x, height / 2 - y), width and height
\* being the dimensions the component renders with; the Vectors hold
\* numbers and the Paths hold points.
C23_FallbackPlacesAtCentre ==
    [][(/\ reactVisualizer # Null
        /\ reactVisualizer.scheduled
        /\ ~reactVisualizer'.scheduled
        /\ ReferenceCostmap(reactVisualizer.state) = Null) =>
          LET state == reactVisualizer.state
              at == IF transformer = Null THEN DefaultDimensions ELSE dimensions
              Centred(p) == <<Frac(at.width + 2 * p[1], 2), Frac(at.height - 2 * p[2], 2)>>
              IsVector(d) == d.t = "obj" /\ d.cls = "Vector"
              IsPath(d) == d.t = "obj" /\ d.cls = "Path"
              WellFormed(d) ==
                  /\ IsVector(d) => "nums" \in DOMAIN d.f["coords"]
                  /\ IsPath(d) => "pts" \in DOMAIN d.f["coords"]
          IN  (\A key \in DOMAIN state.f : WellFormed(state.f[key])) =>
                  /\ transformer' = Undefined
                  /\ ~IsThrow(drawn')
                  /\ \A key \in DOMAIN state.f :
                        /\ IsVector(state.f[key]) =>
                              /\ key \in DOMAIN drawn'.marks
                              /\ drawn'.marks[key]
                                    = <<Centred(state.f[key].f["coords"].nums)>>
                        /\ (IsPath(state.f[key])
                              /\ Len(state.f[key].f["coords"].pts) >= 2) =>
                              /\ key \in DOMAIN drawn'.marks
                              /\ drawn'.marks[key]
                                    = [i \in 1..Len(state.f[key].f["coords"].pts) |->
                                          Centred(state.f[key].f["coords"].pts[i])]
      ]_vars

\* without a Costmap, in a viewport of 500 x 500, the Path from (0, 0) to
\* (1, 1) is drawn from the pixel (250, 250) to the pixel (251, 249)
C23_Witness ==
    /\ transformer = Undefined
    /\ dimensions = [width |-> 500, height |-> 500]
    /\ ~IsThrow(drawn)
    /\ "b" \in DOMAIN drawn.marks
    /\ drawn.marks["b"] = << <<Frac(250, 1), Frac(250, 1)>>,
                             <<Frac(251, 1), Frac(249, 1)>> >>

\* C24: once the component has rendered the state the Visualizer holds, the
\* scales of worldToPx and pxToWorld it uses are the scales of the
\* reference Costmap of that state in the current dimensions of the
\* viewport.
C24_TransformIsCurrent ==
    (/\ reactVisualizer # Null
     /\ ~reactVisualizer.scheduled
     /\ transformer # Null
     /\ ~IsThrow(drawn)) =>
        transformer = useMemo(transformer, TRUE, reactVisualizer.state,
                              dimensions.width, dimensions.height)

\* C25: while the click callback is registered, the svg is in the page and
\* the state of the Visualizer holds a Costmap, a click at the point
\* (150, 300) of the svg, wherever the svg lies in the window, sends exactly
\* one message of type "click", and its position is the world point that
\* the transform of the reference Costmap in the current viewport draws at
\* the clicked point.
C25_ClickReportsClickedPoint ==
    LET at == <<Frac(150, 1), Frac(300, 1)>>
        Sent(corner) ==
            handleGlobalClick(reactVisualizer, TRUE, dimensions, at, corner)
        Drawn(position) ==
            worldToPx(Scales(ReferenceCostmap(reactVisualizer.state),
                             dimensions.width, dimensions.height), position)
    IN  (/\ reactVisualizer # Null
         /\ reactVisualizer.onClickCallback
         /\ transformer # Null /\ ~IsThrow(drawn)
         /\ ReferenceCostmap(reactVisualizer.state) # Null) =>
            \A corner \in {<<Frac(0, 1), Frac(0, 1)>>, <<Frac(10, 1), Frac(20, 1)>>} :
                /\ Len(Sent(corner)) = 1
                /\ Sent(corner)[1].type = "click"
                /\ Drawn(Sent(corner)[1].position) = at

\* C30: what decode returns is chosen by the type of the record alone.  A
\* "costmap" record gives a Costmap whose grid is the Grid decoded from its
\* grid record, whose origin is the Vector of its origin record and whose
\* resolution and origin_theta are the record's; a "vector" record gives a
\* Vector with the record's coordinates; a "grid" record gives the Grid
\* that Grid.decode makes of it; a "path" record gives a Path with the
\* record's points in their order; a record of any other type, or of none,
\* gives none of them, whatever its other fields.
C30_DecodeDispatchesOnType ==
    LET type == Field(decodeArg, "type")
        Is(cls) == decodeResult.t = "obj" /\ decodeResult.cls = cls
    IN  (decodeResult # NotDecoded /\ ~IsThrow(decodeResult)) =>
          /\ type = Str("costmap") =>
                /\ Is("Costmap")
                /\ decodeResult.f["grid"] = GridDecode(decodeArg.f["grid"])
                /\ decodeResult.f["grid"].cls = "Grid"
                /\ decodeResult.f["origin"].cls = "Vector"
                /\ decodeResult.f["origin"].f["coords"]
                      = decodeArg.f["origin"].f["c"]
                /\ decodeResult.f["resolution"] = decodeArg.f["resolution"]
                /\ decodeResult.f["origin_theta"] = decodeArg.f["origin_theta"]
          /\ type = Str("vector") =>
                /\ Is("Vector")
                /\ decodeResult.f["coords"] = decodeArg.f["c"]
          /\ type = Str("grid") =>
                /\ Is("Grid")
                /\ decodeResult = GridDecode(decodeArg)
                /\ decodeResult.f["shape"] = decodeArg.f["shape"]
          /\ type = Str("path") =>
                /\ Is("Path")
                /\ decodeResult.f["coords"] = decodeArg.f["points"]
          /\ type \notin {Str("costmap"), Str("vector"), Str("grid"), Str("path")} =>
                decodeResult.t # "obj"

\* the path record with the points (0, 0) and (1, 1) has been decoded to a
\* Path with these points
C30_Witness ==
    /\ decodeArg = WirePath(<< <<0, 0>>, <<1, 1>> >>)
    /\ decodeResult.t = "obj" /\ decodeResult.cls = "Path"
    /\ decodeResult.f["coords"].pts = << <<0, 0>>, <<1, 1>> >>

\* C31: a render of the component for a state whose first Costmap has the
\* shape (rows, cols), rows and cols positive, and a positive resolution, in
\* a viewport of W x H, builds a transform with cell = min(W/cols, H/rows):
\* the grid of cols*cell by rows*cell pixels is no wider than W and no
\* higher than H, its margins left and right are equal and so are those
\* above and below, worldToPx takes the world point (origin.x, origin.y) to
\* the pixel (offsetX, offsetY + gridH) and the world point
\* (origin.x + cols*resolution, origin.y + rows*resolution) to the pixel
\* (offsetX + gridW, offsetY), and of two world points the one with the
\* larger y gets the smaller pixel y.
C31_GridFitsAndIsCentred ==
    [][(/\ reactVisualizer # Null
        /\ reactVisualizer.scheduled
        /\ ~reactVisualizer'.scheduled
        /\ ReferenceCostmap(reactVisualizer.state) # Null) =>
          LET ref == ReferenceCostmap(reactVisualizer.state)
              at == IF transformer = Null THEN DefaultDimensions ELSE dimensions
              W == Frac(at.width, 1)
              H == Frac(at.height, 1)
              rows == Frac(ref.f["grid"].f["shape"].nums[1], 1)
              cols == Frac(ref.f["grid"].f["shape"].nums[2], 1)
              resolution == Frac(ref.f["resolution"].num, 1)
              origin == <<Frac(ref.f["origin"].f["coords"].nums[1], 1),
                          Frac(ref.f["origin"].f["coords"].nums[2], 1)>>
              far == <<Calc(origin[1], "+", Calc(cols, "*", resolution)),
                       Calc(origin[2], "+", Calc(rows, "*", resolution))>>
              Less(a, b) == a[1] * b[2] < b[1] * a[2]
              cell == IF Less(Calc(W, "/", cols), Calc(H, "/", rows))
                      THEN Calc(W, "/", cols) ELSE Calc(H, "/", rows)
              gridW == Calc(cols, "*", cell)
              gridH == Calc(rows, "*", cell)
              left == worldToPx(transformer', origin)[1]
              bottom == worldToPx(transformer', origin)[2]
              right == worldToPx(transformer', far)[1]
              top == worldToPx(transformer', far)[2]
              Ys == {Frac(-3, 1), Frac(0, 1), Frac(1, 2), Frac(4, 1), Frac(11, 1)}
          IN  /\ transformer' \notin {Null, Undefined}
              /\ Calc(right, "-", left) = gridW
              /\ Calc(bottom, "-", top) = gridH
              /\ ~Less(W, gridW) /\ ~Less(H, gridH)
              /\ left = Calc(W, "-", right)
              /\ top = Calc(H, "-", bottom)
              /\ \A y1 \in Ys, y2 \in Ys :
                    Less(y1, y2) =>
                        Less(worldToPx(transformer', <<origin[1], y2>>)[2],
                             worldToPx(transformer', <<origin[1], y1>>)[2])]_vars

\* the Costmap of 1 row and 2 columns, origin (-2, 1) and resolution 2 has
\* been rendered in a viewport of 500 x 500: cells of 250 pixels, a grid of
\* 500 x 250 pixels with margins of 125 pixels above and below
C31_Witness ==
    /\ dimensions = [width |-> 500, height |-> 500]
    /\ transformer \notin {Null, Undefined}
    /\ transformer.worldX = <<Frac(-2, 1), Frac(2, 1)>>
    /\ transformer.worldY = <<Frac(1, 1), Frac(3, 1)>>
    /\ worldToPx(transformer, <<Frac(-2, 1), Frac(1, 1)>>) = <<Frac(0, 1), Frac(375, 1)>>
    /\ worldToPx(transformer, <<Frac(2, 1), Frac(3, 1)>>) = <<Frac(500, 1), Frac(125, 1)>>

\* C32: after an update that gives a key of draw a Vector, a Path or a
\* Costmap, the tree holds under that key a drawable of that class with
\* the fields of the decoded one and no others, whatever the key held
\* before.
C32_DrawableIsIncoming ==
    \A p \in PayloadIds :
        LET update == DecodedPayloads[p]
            Incoming(draw) ==
                \A key \in DOMAIN draw.f :
                    (draw.f[key].t = "obj"
                       /\ draw.f[key].cls \in {"Vector", "Path", "Costmap"}) =>
                        AsMapping(Applied(serverState, p).f["draw"].f[key])
                            = AsMapping(draw.f[key])
        IN  (~IsThrow(update) /\ Truthy(Field(update, "draw"))) =>
                Incoming(update.f["draw"])

\* C39: once the Visualizer listens, a click sends no message when the
\* state of the Visualizer holds no Costmap, when no click callback is
\* registered, or when the click lies outside the container (left of it,
\* above it, right of it or below it), wherever the container lies in the
\* window; and a step that does send a message is taken with a callback
\* and a Costmap and changes nothing but the messages sent.
C39_IgnoredClicksDoNothing ==
    /\ [](LET Inside == {<<Frac(150, 1), Frac(300, 1)>>, <<Frac(0, 1), Frac(0, 1)>>}
              Outside == {<<Frac(-5, 1), Frac(10, 1)>>, <<Frac(10, 1), Frac(-1, 2)>>,
                          <<Frac(1001, 1), Frac(10, 1)>>, <<Frac(10, 1), Frac(501, 1)>>}
              Corners == {<<Frac(0, 1), Frac(0, 1)>>, <<Frac(10, 1), Frac(20, 1)>>}
              Sent(vis, at, corner) ==
                  handleGlobalClick(vis, transformer # Null /\ ~IsThrow(drawn),
                                    dimensions, at, corner)
          IN  reactVisualizer # Null =>
                \A corner \in Corners :
                    /\ \A at \in Outside : Sent(reactVisualizer, at, corner) = <<>>
                    /\ \A at \in Inside \cup Outside :
                          /\ ReferenceCostmap(reactVisualizer.state) = Null =>
                                Sent(reactVisualizer, at, corner) = <<>>
                          /\ Sent([reactVisualizer EXCEPT !.onClickCallback = FALSE],
                                  at, corner) = <<>>)
    /\ [][emitted' # emitted =>
            /\ reactVisualizer # Null
            /\ reactVisualizer.onClickCallback
            /\ ReferenceCostmap(reactVisualizer.state) # Null
            /\ UNCHANGED <<dimensions, transformer, drawn, visVars>>]_vars

\* the Visualizer shows drawables but no Costmap, in a mounted svg: a
\* click inside the container sends nothing, and the page has sent no
\* message so far
C39_Witness ==
    /\ reactVisualizer # Null
    /\ reactVisualizer.onClickCallback
    /\ transformer = Undefined /\ ~IsThrow(drawn)
    /\ DOMAIN reactVisualizer.state.f # {}
    /\ ReferenceCostmap(reactVisualizer.state) = Null
    /\ emitted = <<>>
    /\ handleGlobalClick(reactVisualizer, TRUE, dimensions,
                         <<Frac(150, 1), Frac(300, 1)>>,
                         <<Frac(0, 1), Frac(0, 1)>>) = <<>>

\* C40: after Visualizer.cleanup() the Visualizer does not react to clicks:
\* no step taken after cleanup sends a click message.
C40_NoClickAfterCleanup ==
    [][(reactVisualizer # Null /\ reactVisualizer.cleaned) =>
          emitted' = emitted]_vars

----------------------------------------------------------------------------
(* Specifications *)

InitVis ==
    /\ serverState = Age(initialServerState)
    /\ reactVisualizer = Null
    /\ inbox = <<>>
    /\ delivered = <<>>
    /\ handled = 0

InitView ==
    /\ dimensions = DefaultDimensions
    /\ transformer = Null
    /\ drawn = Null
    /\ emitted = <<>>

InitStream ==
    /\ streamStore = initialState
    /\ pendingShow = <<>>
    /\ errorMessages = <<>>
    /\ retryCount = <<>>
    /\ retryTimers = <<>>
    /\ timestamps = <<>>
    /\ now = 0
    /\ orphanTimers = [k \in Keys |-> 0]
    /\ textEventSources = <<>>
    /\ eventSources = <<>>

NextStream ==
    \/ \E arg \in ShowArgs : ShowStreamCall(arg)
    \/ \E i \in 1..MaxPendingShow, streams \in {{}, Keys} : ShowStreamResolve(i, streams)
    \/ HideStream
    \/ StopStream
    \/ \E k \in Keys : ImgError(k)
    \/ \E k \in Keys : ImgLoad(k)
    \/ \E k \in Keys : TimerFire(k)

\* the stream viewer while every load fails: the view is shown once and
\* is not stopped, hidden or shown again, and no load succeeds
NextFailing ==
    \/ \E arg \in ShowArgs : streamStore.url = "null" /\ ShowStreamCall(arg)
    \/ \E i \in 1..MaxPendingShow, streams \in {{}, Keys} :
          streamStore.url = "null" /\ ShowStreamResolve(i, streams)
    \/ \E k \in Keys : ImgError(k)
    \/ \E k \in Keys : TimerFire(k)

\* the stream viewer of one camera with the clock: the stream is shown,
\* its loads fail or succeed, time passes and the retry timer fires when
\* it is due
NextClock ==
    \/ ShowStreamCall("cam0")
    \/ \E i \in 1..MaxPendingShow, streams \in {{}, Keys} : ShowStreamResolve(i, streams)
    \/ ImgError("cam0")
    \/ ImgLoad("cam0")
    \/ TimerDue("cam0")
    \/ TimePasses

Init ==
    /\ InitStream
    /\ InitVis
    /\ InitView
    /\ decodeArg = Null
    /\ decodeResult = NotDecoded

Next ==
    \/ \E name \in {"state_update", "full_state"}, p \in PayloadIds : StateEvent(name, p)
    \/ \E name \in {"connect", "disconnect"} : ConnectionEvent(name)
    \/ DomContentLoaded

\* the visualiser client
Spec == Init /\ [][Next]_vars

\* the stream viewer
SpecStream == Init /\ [][NextStream]_vars

\* the text streams of the terminal: streams are connected and
\* disconnected by their keys, and the browser reports errors of the sources
NextText ==
    \/ \E key \in {"agent", "log"} : connectTextStream(key)
    \/ \E key \in {"agent", "log"} : disconnectTextStream(key)
    \/ \E i \in 1..MaxSources : onerror(i)

SpecText == Init /\ [][NextText]_vars

\* the stream viewer of one camera with the clock
SpecClock == Init /\ [][NextClock]_vars

\* the stream viewer while every load fails; a timer the browser holds
\* fires
SpecFailing ==
    /\ Init
    /\ [][NextFailing]_vars
    /\ \A k \in Keys : WF_vars(TimerFire(k))

\* a call of decode
Decode ==
    /\ decodeResult = NotDecoded
    /\ decodeResult' = decode(decodeArg)
    /\ UNCHANGED <<decodeArg, streamVars, visVars, viewVars>>

InitDecode ==
    /\ InitStream
    /\ InitVis
    /\ InitView
    /\ decodeArg \in DecodeInputs
    /\ decodeResult = NotDecoded

\* decode, called once with any of its inputs
SpecDecode == InitDecode /\ [][Decode]_vars

\* the visualiser with its component: the updates that draw two Costmaps,
\* a Vector and a Path, the renders of React, the container changing its
\* size, clicks at a point of the svg and at one outside of it, the svg
\* lying at the corner of the window or away from it, and the Visualizer
\* being torn down
NextView ==
    \/ \E p \in {6, 13, 14, 15} : StateEvent("state_update", p)
    \/ DomContentLoaded
    \/ \E size \in Viewports : Commit(size)
    \/ \E size \in Viewports : Resize(size)
    \/ \E at \in {<<Frac(150, 1), Frac(300, 1)>>, <<Frac(-5, 1), Frac(10, 1)>>},
          corner \in {<<Frac(0, 1), Frac(0, 1)>>, <<Frac(10, 1), Frac(20, 1)>>} :
          Click(at, corner)
    \/ cleanup

SpecView == Init /\ [][NextView]_vars

NextOrder ==
    \/ \E e \in OrderEvents : Deliver(e)
    \/ HandleNext

\* the visualiser client behind its event queue
SpecOrder == Init /\ [][NextOrder]_vars

====
